---- MODULE Spec2Model ----
(***************************************************************************)
(* Multi-Model-Chat: the multiplexed streaming proxy.                      *)
(*                                                                         *)
(*   SpecServer   the chat-proxy route: callOpenRouter, makeAIRequest,     *)
(*                sendSSEMessage, the heartbeat interval and the           *)
(*                Promise.allSettled close.                                *)
(*   SpecManager  one SSEConnectionManager consuming a multiplexed stream. *)
(*   SpecPool     the ConnectionPool and the managers it owns.             *)
(*   SpecLimit    the pool under more createConnection calls than slots.   *)
(*   SpecCleanup  the pool with a clock, for cleanupStaleConnections.      *)
(*   SpecApp      ChatApp with one submission over its pool.               *)
(*   SpecManagerFair  a manager whose heartbeat timer keeps firing.        *)
(*   SpecParser   processChunk over every chunking of a response stream.   *)
(*   SpecBurst    processChunk over reads of any length.                   *)
(*   SpecTagging  event names written by the server, decoded by the client.*)
(*   SpecRetry    a manager none of whose requests is answered.             *)
(*   SpecUpstream the route with upstreams that send error objects.        *)
(*   SpecStagger  the route with a clock, for the start delays.            *)
(*   SpecSelection  ChatApp's model selection under the Sidebar's and the   *)
(*                response area's controls.                                *)
(*   SpecChat     ChatApp with a user who submits prompts and starts new   *)
(*                chats, and its evaluation effect.                        *)
(*   SpecChatFair the same, where ready continuations run and the          *)
(*                evaluation timer fires.                                  *)
(*                                                                         *)
(* Strings that the code only inspects with includes() are modelled as the *)
(* set of the inspected substrings they contain.                           *)
(***************************************************************************)
EXTENDS Integers, Sequences, FiniteSets, TLC

(***************************************************************************)
(* Bounds of the model                                                     *)
(***************************************************************************)
\* content fragments one upstream delivers in one submission
MaxChunks == 1
\* requests one SSEConnectionManager may issue before the model stops it
MaxConnects == 2
\* records on the response stream whose chunking is examined
MaxRecords == 4
\* requests a manager whose connect attempts all fail may issue before the
\* model stops it
MaxRequests == 5
\* milliseconds the clock of the timed route runs for
MaxClock == 3000
\* characters of the model ids whose event names are written and decoded
MaxIdLen == 3
\* options.bufferSize in symbols of the parser's text: one record is 7
\* symbols long, as 8192 characters are many records long
bufferSize == 7
\* the lines the truncation keeps (50 in the code), scaled with bufferSize
KeptLines == 3

(***************************************************************************)
(* Program constants                                                       *)
(***************************************************************************)
maxRetries == 3
RateLimitBaseMs == 2000
RateLimitJitterMs == 1000
NetworkBaseMs == 1000
NetworkJitterMs == 500
StaggerMs == 2000
maxReconnectAttempts == 5
optionsMaxRetries == 3

(***************************************************************************)
(* The server: src/app/api/chat-proxy/route.ts                             *)
(***************************************************************************)
\* models of the request body, in request order
models == <<"A", "B">>

Targets == {models[i] : i \in 1..Len(models)}

Index(m) == CHOOSE i \in 1..Len(models) : models[i] = m

\* the substrings callOpenRouter and makeAIRequest look for in a message
Keywords == {"fetch", "network", "timeout", "rate limit"}

\* upstream response bodies, as the set of keywords their text contains
BodyTexts == {{}, {"timeout"}, {"network"}, {"rate limit"}}

\* HTTP statuses of a response that is not ok: the ones the status switch names ...
NamedStatuses == {400, 401, 403, 404, 429, 500, 503}

\* ... and two of its default branch, whose message quotes the response body
OtherStatuses == {408, 599}

\* what one fetch of callOpenRouter can come back with
Responses ==
    {[kind |-> k, status |-> 0, body |-> {}] : k \in {"ok", "nobody", "network", "timeout"}}
    \cup {[kind |-> "http", status |-> s, body |-> {}] : s \in NamedStatuses}
    \cup {[kind |-> "http", status |-> s, body |-> b] : s \in OtherStatuses, b \in BodyTexts}

VARIABLES
    apiKey,              \* process.env.OPENROUTER_API_KEY is set
    apc,                 \* per model: where makeAIRequest / callOpenRouter stands
    retryCount,          \* per model: the retryCount parameter of the running callOpenRouter call
    lastDelay,           \* per model: the backoff delay last waited (ms), 0 if none
    rateLimitRetries,    \* per model: backoffs taken by the 429 branch in the running call
    lastResp,            \* per model: class of the outcome being handled, "none" while a fetch is pending
    hasReceivedContent,  \* per model
    chunks,              \* per model: content fragments received
    sent,                \* per model: records enqueued on the outbound stream
    lastSent,            \* kind of the record enqueued last
    connectionActive,
    heartbeatInterval,   \* the interval timer is armed
    stale,               \* Date.now() - lastActivity exceeds the 120000 ms threshold
    transport,           \* "idle", "open", "cancelled" (by the consumer), "closed"
    phase                \* "idle", "running" (start(controller) has run), "settled"

serverVars == <<apiKey, apc, retryCount, lastDelay, rateLimitRetries, lastResp,
                hasReceivedContent, chunks, sent, lastSent, connectionActive,
                heartbeatInterval, stale, transport, phase>>

VARIABLES
    reconnectOnDrop,     \* options.reconnectOnDrop of every manager
    mgr,                 \* per manager: the fields of the SSEConnectionManager and its pending call
    obs                  \* per manager: what its two callbacks have been called with

managerVars == <<reconnectOnDrop, mgr, obs>>

VARIABLES
    pool,                \* the fields of the ConnectionPool
    call,                \* per createConnection call: where it stands and its connectionId
    micro,               \* the promise continuations that are ready to run, in order
    now                  \* Date.now()

poolVars == <<pool, call, micro, now>>

VARIABLES
    records,             \* the number of records the response stream carries
    wire,                \* the part of the response stream no chunk has delivered yet
    buffer,              \* this.buffer of the SSEConnectionManager reading that stream
    dispatched           \* the handleSSEEvent calls processChunk has made, in order

parserVars == <<records, wire, buffer, dispatched>>

VARIABLES
    selected,            \* ChatApp's selectedModels state
    rendered,            \* the selectedModels prop the Sidebar was rendered with last
    lastOp               \* the control used last and its model

selectionVars == <<selected, rendered, lastOp>>

VARIABLES
    tagId,               \* the model id of the record being written, a sequence of characters
    tagKind,             \* its kind, or "heartbeat"
    tagName,             \* the event name on the wire, <<>> before the server wrote it
    decoded              \* what handleSSEEvent made of the name: model id and type

taggingVars == <<tagId, tagKind, tagName, decoded>>

VARIABLES
    chat                 \* ChatApp's prompt, evaluation and connection state

chatVars == <<chat>>

clientVars == <<managerVars, poolVars, parserVars, selectionVars, taggingVars, chatVars>>

VARIABLES
    clock,               \* ms since the route started the adapters
    startedAt            \* per model: the clock at its first upstream fetch, NotStarted if none

staggerVars == <<clock, startedAt>>

vars == <<serverVars, clientVars, staggerVars>>

Record(m, k, i, r) == [target |-> m, kind |-> k, info |-> i, retryable |-> r]

Heartbeat == Record("", "heartbeat", "", FALSE)

\* the part of the state sendSSEMessage reads and writes
Sink == [active |-> connectionActive, sent |-> sent, last |-> lastSent, transport |-> transport]

\* enqueue throws once the consumer has cancelled the stream
sendSSEMessage(st, ev) ==
    IF ~st.active THEN st
    ELSE IF st.transport # "open" THEN [st EXCEPT !.active = FALSE]
    ELSE [st EXCEPT !.sent = IF ev.target \in Targets
                             THEN [@ EXCEPT ![ev.target] = Append(@, ev)]
                             ELSE @,
                    !.last = ev.kind]

Commit(st) ==
    /\ connectionActive' = st.active
    /\ sent' = st.sent
    /\ lastSent' = st.last

\* the error object built by the status switch of callOpenRouter
StatusError(m, s, body) ==
    CASE s = 400 -> [name |-> "Error", text |-> {m}, retryable |-> FALSE]
      [] s = 401 -> [name |-> "Error", text |-> {}, retryable |-> FALSE]
      [] s = 403 -> [name |-> "Error", text |-> {m}, retryable |-> FALSE]
      [] s = 404 -> [name |-> "Error", text |-> {m}, retryable |-> FALSE]
      [] s = 429 -> [name |-> "Error", text |-> {m}, retryable |-> TRUE]
      [] s \in {500, 502, 503, 504} -> [name |-> "Error", text |-> {m}, retryable |-> TRUE]
      [] OTHER -> [name |-> "Error", text |-> {m} \cup body, retryable |-> s >= 500]

\* what the catch block of callOpenRouter sees for a response
ThrownError(m, resp) ==
    CASE resp.kind = "http" -> StatusError(m, resp.status, resp.body)
      [] resp.kind = "network" -> [name |-> "TypeError", text |-> {"fetch"}, retryable |-> FALSE]
      [] resp.kind = "timeout" -> [name |-> "AbortError", text |-> {"timeout", m}, retryable |-> TRUE]
      [] OTHER -> [name |-> "Error", text |-> {}, retryable |-> FALSE]

\* the failure classes of the retry policy
Classify(resp) ==
    CASE resp.kind = "http" /\ resp.status = 429 -> "ratelimit"
      [] resp.kind = "http" /\ resp.status >= 500 -> "server"
      [] resp.kind = "http" -> "fatal4xx"
      [] OTHER -> resp.kind

\* mutant: the budget check is off by one
CatchRetriesOffByOne(e, rc) ==
    /\ rc <= maxRetries
    /\ \/ e.name = "TypeError"
       \/ e.text \cap {"fetch", "network", "timeout"} # {}
       \/ e.retryable

\* the retry condition of the catch block
CatchRetries(e, rc) ==
    /\ rc < maxRetries
    /\ \/ e.name = "TypeError"
       \/ e.text \cap {"fetch", "network", "timeout"} # {}
       \/ e.retryable

\* the message enhancement before the error leaves callOpenRouter
Enhance(m, e) == [e EXCEPT !.text = @ \cup {m}]

\* the retryable flag makeAIRequest puts on the error record
ErrorRetryable(e) ==
    IF "fetch" \in e.text THEN TRUE
    ELSE IF "timeout" \in e.text THEN TRUE
    ELSE IF "rate limit" \in e.text THEN TRUE
    ELSE e.retryable

Pow2(n) == 2 ^ n

\* mutant: the backoff forgets the exponent
RateLimitDelayFlat(rc, jitter) == RateLimitBaseMs + jitter

RateLimitDelay(rc, jitter) == Pow2(rc) * RateLimitBaseMs + jitter

NetworkDelay(rc, jitter) == Pow2(rc) * NetworkBaseMs + jitter

\* Math.random() * 1000 and Math.random() * 500, at their extremes
RateLimitJitters == {0, RateLimitJitterMs - 1}

NetworkJitters == {0, NetworkJitterMs - 1}

NotStarted == -1

InitServer ==
    /\ apiKey \in BOOLEAN
    /\ apc = [m \in Targets |-> "idle"]
    /\ retryCount = [m \in Targets |-> 0]
    /\ lastDelay = [m \in Targets |-> 0]
    /\ rateLimitRetries = [m \in Targets |-> 0]
    /\ lastResp = [m \in Targets |-> "none"]
    /\ hasReceivedContent = [m \in Targets |-> FALSE]
    /\ chunks = [m \in Targets |-> 0]
    /\ sent = [m \in Targets |-> <<>>]
    /\ lastSent = "none"
    /\ connectionActive = FALSE
    /\ heartbeatInterval = FALSE
    /\ stale = FALSE
    /\ transport = "idle"
    /\ phase = "idle"
    /\ clock = 0
    /\ startedAt = [m \in Targets |-> NotStarted]

RECURSIVE SendAll(_, _)
SendAll(st, evs) ==
    IF evs = <<>> THEN st
    ELSE SendAll(sendSSEMessage(st, Head(evs)), Tail(evs))

ConnectingRecord(m) == Record(m, "progress", "connecting", FALSE)

StreamingRecord(m) == Record(m, "progress", "streaming", FALSE)

ChunkRecord(m) == Record(m, "chunk", "", FALSE)

EndRecord(m) == Record(m, "end", "", FALSE)

\* the catch block of makeAIRequest
ErrorRecord(m, e) == Record(m, "error", "", ErrorRetryable(e))

ApiKeyError == [name |-> "Error", text |-> {}, retryable |-> FALSE]

NoBodyError == [name |-> "Error", text |-> {}, retryable |-> FALSE]

NoContentError == [name |-> "Error", text |-> {}, retryable |-> FALSE]

\* POST: start(controller) up to the first await of every makeAIRequest
Dispatch ==
    /\ phase = "idle"
    /\ LET st0 == [active |-> TRUE, sent |-> sent, last |-> lastSent, transport |-> "open"]
           first == models[1]
           progress == [i \in 1..Len(models) |-> ConnectingRecord(models[i])]
           st1 == SendAll(st0, <<Heartbeat>> \o progress)
           st2 == IF apiKey THEN st1
                  ELSE sendSSEMessage(st1, ErrorRecord(first, Enhance(first, ApiKeyError)))
       IN  /\ Commit(st2)
           /\ apc' = [m \in Targets |->
                         IF m # first THEN "stagger"
                         ELSE IF apiKey THEN "fetching" ELSE "done"]
           /\ lastResp' = [lastResp EXCEPT ![first] = IF apiKey THEN "none" ELSE "nokey"]
    /\ transport' = "open"
    /\ heartbeatInterval' = TRUE
    /\ stale' = FALSE
    /\ phase' = "running"
    /\ UNCHANGED <<clientVars, apiKey, retryCount, lastDelay, rateLimitRetries, hasReceivedContent, chunks>>

\* the locals of a callOpenRouter call that has returned or thrown
Returned(m) ==
    /\ apc' = [apc EXCEPT ![m] = "done"]
    /\ retryCount' = [retryCount EXCEPT ![m] = 0]
    /\ lastDelay' = [lastDelay EXCEPT ![m] = 0]
    /\ rateLimitRetries' = [rateLimitRetries EXCEPT ![m] = 0]

\* callOpenRouter after its start delay: the API key check and the fetch
StaggerElapsed(m) ==
    /\ apc[m] = "stagger"
    /\ IF apiKey
       THEN /\ apc' = [apc EXCEPT ![m] = "fetching"]
            /\ UNCHANGED <<lastResp, connectionActive, sent, lastSent,
                           retryCount, lastDelay, rateLimitRetries>>
       ELSE /\ Returned(m)
            /\ lastResp' = [lastResp EXCEPT ![m] = "nokey"]
            /\ Commit(sendSSEMessage(Sink, ErrorRecord(m, Enhance(m, ApiKeyError))))
    /\ UNCHANGED <<clientVars, apiKey, hasReceivedContent, chunks,
                   heartbeatInterval, stale, transport, phase>>

\* callOpenRouter: the fetch settles; makeAIRequest up to its first read
FetchResponds(m, resp) ==
    /\ apc[m] = "fetching"
    /\ lastResp' = [lastResp EXCEPT ![m] = Classify(resp)]
    /\ LET rc == retryCount[m]
           e == ThrownError(m, resp)
       IN  CASE resp.kind = "ok" ->
                  LET st == sendSSEMessage(Sink, StreamingRecord(m))
                  IN  IF st.active
                      THEN /\ Commit(st)
                           /\ apc' = [apc EXCEPT ![m] = "streaming"]
                           /\ UNCHANGED <<retryCount, lastDelay, rateLimitRetries>>
                      ELSE /\ Commit(sendSSEMessage(st, ErrorRecord(m, NoContentError)))
                           /\ Returned(m)
             [] resp.kind = "nobody" ->
                  /\ Commit(sendSSEMessage(Sink, ErrorRecord(m, NoBodyError)))
                  /\ Returned(m)
             [] resp.kind = "http" /\ resp.status = 429 /\ rc < maxRetries ->
                  /\ \E j \in RateLimitJitters :
                        lastDelay' = [lastDelay EXCEPT ![m] = RateLimitDelay(rc, j)]
                  /\ rateLimitRetries' = [rateLimitRetries EXCEPT ![m] = @ + 1]
                  /\ apc' = [apc EXCEPT ![m] = "backoff"]
                  /\ UNCHANGED <<connectionActive, sent, lastSent, retryCount>>
             [] OTHER ->
                  IF CatchRetries(e, rc)
                  THEN /\ \E j \in NetworkJitters :
                             lastDelay' = [lastDelay EXCEPT ![m] = NetworkDelay(rc, j)]
                       /\ apc' = [apc EXCEPT ![m] = "backoff"]
                       /\ UNCHANGED <<connectionActive, sent, lastSent, retryCount, rateLimitRetries>>
                  ELSE /\ Commit(sendSSEMessage(Sink, ErrorRecord(m, Enhance(m, e))))
                       /\ Returned(m)
    /\ UNCHANGED <<clientVars, apiKey, hasReceivedContent, chunks,
                   heartbeatInterval, stale, transport, phase>>

\* callOpenRouter: the backoff delay is over, the recursive call fetches again
BackoffElapsed(m) ==
    /\ apc[m] = "backoff"
    /\ retryCount' = [retryCount EXCEPT ![m] = @ + 1]
    /\ lastResp' = [lastResp EXCEPT ![m] = "none"]
    /\ apc' = [apc EXCEPT ![m] = "fetching"]
    /\ UNCHANGED <<clientVars, apiKey, lastDelay, rateLimitRetries, hasReceivedContent, chunks, sent, lastSent,
                   connectionActive, heartbeatInterval, stale, transport, phase>>

\* what one reader.read() of makeAIRequest can deliver
ReadItems == {"token", "marker", "other", "eof", "fail"}

\* message texts of a failed read
ReadErrorTexts == {{}, {"fetch"}}

\* makeAIRequest: one turn of the read loop
Read(m, item, text) ==
    /\ apc[m] = "streaming"
    /\ LET leave(st) ==
               \* the code after the loop: the synthesized end or the no-content error
               IF hasReceivedContent'[m]
               THEN sendSSEMessage(st, EndRecord(m))
               ELSE sendSSEMessage(st, ErrorRecord(m, NoContentError))
       IN  CASE item = "eof" ->
                  /\ hasReceivedContent' = hasReceivedContent
                  /\ Commit(leave(Sink))
                  /\ Returned(m)
                  /\ lastResp' = [lastResp EXCEPT ![m] = "eof"]
                  /\ UNCHANGED <<chunks, stale>>
             [] item = "fail" ->
                  /\ Commit(sendSSEMessage(Sink,
                          ErrorRecord(m, [name |-> "Error", text |-> text, retryable |-> FALSE])))
                  /\ Returned(m)
                  /\ lastResp' = [lastResp EXCEPT ![m] = "readfail"]
                  /\ UNCHANGED <<hasReceivedContent, chunks, stale>>
             [] OTHER ->
                  /\ stale' = FALSE
                  /\ UNCHANGED lastResp
                  /\ IF ~connectionActive
                     THEN \* the line loop breaks at once and the while condition fails
                          /\ hasReceivedContent' = hasReceivedContent
                          /\ Commit(leave(Sink))
                          /\ Returned(m)
                          /\ UNCHANGED chunks
                     ELSE CASE item = "token" ->
                                 /\ chunks[m] < MaxChunks
                                 /\ chunks' = [chunks EXCEPT ![m] = @ + 1]
                                 /\ hasReceivedContent' = [hasReceivedContent EXCEPT ![m] = TRUE]
                                 /\ LET st == sendSSEMessage(Sink, ChunkRecord(m))
                                    IN  IF st.active
                                        THEN /\ Commit(st)
                                             /\ UNCHANGED <<apc, retryCount, lastDelay, rateLimitRetries>>
                                        ELSE /\ Commit(leave(st))
                                             /\ Returned(m)
                            [] item = "marker" ->
                                 /\ Commit(sendSSEMessage(Sink, EndRecord(m)))
                                 /\ Returned(m)
                                 /\ UNCHANGED <<hasReceivedContent, chunks>>
                            [] OTHER ->
                                 \* an error object, an empty delta or unparsable data
                                 /\ UNCHANGED <<hasReceivedContent, chunks, apc, retryCount, lastDelay,
                                                rateLimitRetries, connectionActive, sent, lastSent>>
    /\ UNCHANGED <<clientVars, apiKey, heartbeatInterval, transport, phase>>

\* makeAIRequest: a turn of the read loop whose data record carries an error
\* object; the throw is taken by the catch around JSON.parse, which warns
ReadErrorObject(m) ==
    /\ apc[m] = "streaming"
    /\ connectionActive
    /\ stale' = FALSE
    /\ lastResp' = [lastResp EXCEPT ![m] = "errorObject"]
    /\ UNCHANGED <<clientVars, apiKey, apc, retryCount, lastDelay, rateLimitRetries,
                   hasReceivedContent, chunks, sent, lastSent, connectionActive,
                   heartbeatInterval, transport, phase>>

\* More than 120000 ms go by without a read of any upstream.  A fetch is
\* aborted after 30000 ms and a backoff lasts below 9000 ms, so only adapters
\* blocked in reader.read(), which has no timeout, can sit that long.
TimePasses ==
    /\ phase = "running"
    /\ \A m \in Targets : apc[m] \in {"streaming", "done"}
    /\ \E m \in Targets : apc[m] = "streaming"
    /\ ~stale
    /\ stale' = TRUE
    /\ UNCHANGED <<clientVars, apiKey, apc, retryCount, lastDelay, rateLimitRetries, lastResp,
                   hasReceivedContent, chunks, sent, lastSent, connectionActive,
                   heartbeatInterval, transport, phase>>

\* the setInterval callback of start(controller); once the last
\* makeAIRequest has returned, the then-callback runs before any timer
HeartbeatTick ==
    /\ heartbeatInterval
    /\ \E m \in Targets : apc[m] # "done"
    /\ IF ~connectionActive
       THEN /\ heartbeatInterval' = FALSE
            /\ UNCHANGED <<connectionActive, sent, lastSent>>
       ELSE IF stale
            THEN /\ connectionActive' = FALSE
                 /\ heartbeatInterval' = FALSE
                 /\ UNCHANGED <<sent, lastSent>>
            ELSE /\ Commit(sendSSEMessage(Sink, Heartbeat))
                 /\ UNCHANGED heartbeatInterval
    /\ UNCHANGED <<clientVars, apiKey, apc, retryCount, lastDelay, rateLimitRetries, lastResp,
                   hasReceivedContent, chunks, stale, transport, phase>>

\* the then-callback of Promise.allSettled: final heartbeat, cleanup, close
AllSettled ==
    /\ phase = "running"
    /\ \A m \in Targets : apc[m] = "done"
    /\ LET st == sendSSEMessage(Sink, Heartbeat)
       IN  /\ sent' = st.sent
           /\ lastSent' = st.last
    /\ connectionActive' = FALSE
    /\ heartbeatInterval' = FALSE
    /\ transport' = IF transport = "open" THEN "closed" ELSE transport
    /\ phase' = "settled"
    /\ UNCHANGED <<clientVars, apiKey, apc, retryCount, lastDelay, rateLimitRetries, lastResp,
                   hasReceivedContent, chunks, stale>>

\* the consumer aborts its request: the outbound stream is cancelled
ConsumerCancel ==
    /\ transport = "open"
    /\ transport' = "cancelled"
    /\ UNCHANGED <<clientVars, apiKey, apc, retryCount, lastDelay, rateLimitRetries, lastResp,
                   hasReceivedContent, chunks, sent, lastSent, connectionActive,
                   heartbeatInterval, stale, phase>>

NextServer ==
    \/ Dispatch /\ UNCHANGED staggerVars
    \/ \E m \in Targets : StaggerElapsed(m) /\ UNCHANGED staggerVars
    \/ \E m \in Targets, resp \in Responses : FetchResponds(m, resp) /\ UNCHANGED staggerVars
    \/ \E m \in Targets : BackoffElapsed(m) /\ UNCHANGED staggerVars
    \/ \E m \in Targets, item \in ReadItems, text \in ReadErrorTexts :
          Read(m, item, text) /\ UNCHANGED staggerVars
    \/ TimePasses /\ UNCHANGED staggerVars
    \/ HeartbeatTick /\ UNCHANGED staggerVars
    \/ AllSettled /\ UNCHANGED staggerVars
    \/ ConsumerCancel /\ UNCHANGED staggerVars

\* the delay makeAIRequest hands to callOpenRouter, at half the interval
StaggerDelayHalved(index) == index * (StaggerMs \div 2)

\* the delay makeAIRequest hands to callOpenRouter for the model at index
\* (from 0) of the request
StaggerDelay(index) == index * StaggerMs

\* start(controller) at clock 0: the adapter of index 0 fetches at once
DispatchAt ==
    /\ clock = 0
    /\ Dispatch
    /\ startedAt' = [m \in Targets |-> IF apc'[m] = "fetching" THEN clock ELSE NotStarted]
    /\ UNCHANGED clock

\* the timer of delay(delayMs) fires, not before delayMs have gone by
StaggerElapsedAt(m) ==
    /\ clock >= StaggerDelay(Index(m) - 1)
    /\ StaggerElapsed(m)
    /\ startedAt' = IF apc'[m] = "fetching" THEN [startedAt EXCEPT ![m] = clock] ELSE startedAt
    /\ UNCHANGED clock

\* a second goes by
ClockTick ==
    /\ phase = "running"
    /\ clock < MaxClock
    /\ clock' = clock + 1000
    /\ UNCHANGED <<serverVars, clientVars, startedAt>>

\* the responses of the timed route: success, rate limit, server error
StaggerResponses ==
    {r \in Responses : r.kind = "ok" \/ (r.kind = "http" /\ r.status \in {429, 500})}

\* the route with a clock, without heartbeats and cancellation
NextStagger ==
    \/ DispatchAt
    \/ \E m \in Targets : StaggerElapsedAt(m)
    \/ \E m \in Targets, resp \in StaggerResponses : FetchResponds(m, resp) /\ UNCHANGED staggerVars
    \/ \E m \in Targets : BackoffElapsed(m) /\ UNCHANGED staggerVars
    \/ \E m \in Targets, item \in {"token", "marker"} : Read(m, item, {}) /\ UNCHANGED staggerVars
    \/ ClockTick

(***************************************************************************)
(* The consumer: src/app/lib/sseManager.ts                                 *)
(***************************************************************************)
\* the SSEConnectionManager instances of the model
Managers == {1, 2, 3, 4}

\* every model id a manager may be asked for
ModelIds == {"A", "B", "C", "D"}

SeqToSet(q) == {q[i] : i \in 1..Len(q)}

\* one invocation of onConnectionChange or onEvent
StatusCall(st) ==
    [cb |-> "status", status |-> st, target |-> "", kind |-> "", retryable |-> FALSE, synth |-> FALSE]

EventCall(m, k, r, sy) ==
    [cb |-> "event", status |-> "", target |-> m, kind |-> k, retryable |-> r, synth |-> sy]

\* the manager after its constructor
NewManager(ms) ==
    [pc |-> "new",               \* where the connectWithMessages call stands
     expected |-> ms,            \* the models argument of that call
     controller |-> FALSE,       \* this.controller is set
     reader |-> FALSE,           \* this.reader is set
     heartbeatTimer |-> FALSE,
     timeoutTimer |-> FALSE,
     retryCount |-> 0,
     isConnected |-> FALSE,
     completedModels |-> {},
     reconnectAttempts |-> 0,
     quiet |-> FALSE,            \* Date.now() - lastActivity exceeds 2 * heartbeatInterval
     connects |-> 0,             \* requests issued to /api/chat-proxy
     requested |-> <<>>,         \* the models of the request issued last
     served |-> {},              \* the models whose terminal record the response has carried
     ended |-> FALSE,            \* a response has ended before every model was terminal
     endedWith |-> {},           \* completedModels when it did
     staleClosed |-> FALSE,      \* the heartbeat timer has found the connection stale
     dropped |-> FALSE,          \* handleSSEEvent has returned without dispatching a record
     out |-> <<>>]               \* callback invocations of the step being taken

\* the observer of a manager's callbacks
NewObserver ==
    [status |-> "idle",                              \* last argument of onConnectionChange
     terminals |-> [m \in ModelIds |-> 0],           \* end / error events passed to onEvent
     synthesized |-> [m \in ModelIds |-> 0],         \* those of them the manager made up itself
     late |-> [m \in ModelIds |-> FALSE],            \* onEvent was called after the first terminal event
     cancelled |-> FALSE,                            \* the owner has called disconnect()
     badStatus |-> FALSE]                            \* onConnectionChange was called out of order

\* the transport of manager record r is open: its fetch or its read is pending
\* and nothing has aborted it
TransportOpen(r) ==
    /\ r.pc \in {"fetching", "reading"}
    /\ r.controller

\* the response stream of manager record r is open (it has neither ended nor
\* failed) and disconnect() has not been called on it
StreamOpen(r) ==
    /\ r.pc = "reading"
    /\ r.controller
    /\ r.isConnected

onConnectionChange(r, st) == [r EXCEPT !.out = Append(@, StatusCall(st))]

onEvent(r, m, k, retryable, sy) == [r EXCEPT !.out = Append(@, EventCall(m, k, retryable, sy))]

cleanup(r) ==
    [r EXCEPT !.controller = FALSE, !.reader = FALSE, !.heartbeatTimer = FALSE,
              !.timeoutTimer = FALSE, !.completedModels = {}, !.retryCount = 0,
              !.reconnectAttempts = 0]

disconnect(r) == cleanup(onConnectionChange([r EXCEPT !.isConnected = FALSE], "disconnected"))

\* connectWithMessages up to the await of fetch
connectWithMessages(r, ms) ==
    LET r1 == onConnectionChange(cleanup(r), "connecting")
    IN  [r1 EXCEPT !.controller = TRUE, !.timeoutTimer = TRUE, !.pc = "fetching",
                   !.connects = @ + 1, !.requested = ms, !.served = {}]

RECURSIVE SynthesizeErrors(_, _)
\* the forEach of handleStreamEnd and of handleUnexpectedDisconnection
SynthesizeErrors(r, ms) ==
    IF ms = <<>> THEN r
    ELSE SynthesizeErrors(
             IF Head(ms) \in r.completedModels THEN r
             ELSE onEvent(r, Head(ms), "error", TRUE, TRUE),
             Tail(ms))

handleStreamEnd(r) == SynthesizeErrors(r, r.expected)

\* handleUnexpectedDisconnection up to its delay
handleUnexpectedDisconnection(r) ==
    IF r.reconnectAttempts >= maxReconnectAttempts
    THEN [handleStreamEnd(r) EXCEPT !.pc = "resolved"]
    ELSE [onEvent([r EXCEPT !.reconnectAttempts = @ + 1], "", "progress", FALSE, TRUE)
             EXCEPT !.pc = "reconnectDelay"]

\* the response ends, or the read fails, before every model is terminal
TransportEnded(r) == [r EXCEPT !.ended = TRUE, !.endedWith = r.completedModels]

\* the message texts shouldRetry refuses
shouldRetry(r, failure) ==
    /\ r.retryCount < optionsMaxRetries
    /\ failure \notin {"http401", "http403", "abort"}

\* the catch block of connectWithMessages
ConnectFailed(r, failure) ==
    LET r1 == onConnectionChange(r, "error")
    IN  IF shouldRetry(r1, failure)
        THEN [r1 EXCEPT !.retryCount = @ + 1, !.pc = "retryDelay"]
        ELSE [r1 EXCEPT !.pc = "rejected"]

\* event.split('_') of the event name the record carries
EventParts(rec) ==
    IF rec.kind = "heartbeat" THEN <<"heartbeat">>
    ELSE IF rec.kind = "malformed" THEN <<rec.target>>
    ELSE <<rec.target, rec.kind>>

\* eventParts.slice(0, -1).join('_') for names of at most two parts
ModelIdOf(parts) == IF Len(parts) = 2 THEN parts[1] ELSE ""

\* SSEConnectionManager.handleSSEEvent going on after the test of
\* eventParts.length
handleSSEEventOfManagerLax(r, parts, retryable) ==
    IF parts = <<"heartbeat">>
    THEN onEvent(r, "", "heartbeat", FALSE, FALSE)
    ELSE LET modelId == ModelIdOf(parts)
             type == parts[Len(parts)]
             r1 == IF Len(parts) < 2 THEN [r EXCEPT !.dropped = TRUE] ELSE r
             r2 == onEvent(r1, modelId, type, retryable, FALSE)
         IN  IF type \in {"end", "error"}
             THEN [r2 EXCEPT !.completedModels = @ \cup {modelId}]
             ELSE r2

\* SSEConnectionManager.handleSSEEvent
handleSSEEventOfManager(r, parts, retryable) ==
    IF parts = <<"heartbeat">>
    THEN onEvent(r, "", "heartbeat", FALSE, FALSE)
    ELSE IF Len(parts) < 2
    THEN [r EXCEPT !.dropped = TRUE]
    ELSE LET modelId == ModelIdOf(parts)
             type == parts[Len(parts)]
             r2 == onEvent(r, modelId, type, retryable, FALSE)
         IN  IF type \in {"end", "error"}
             THEN [r2 EXCEPT !.completedModels = @ \cup {modelId}]
             ELSE r2

\* handleSSEEvent for one record, then the completion test of processStream
ProcessRecord(r, rec) ==
    LET r1 == [r EXCEPT !.quiet = FALSE]
        r2 == handleSSEEventOfManager(r1, EventParts(rec), rec.retryable)
        r3 == IF rec.kind \in {"end", "error"}
              THEN [r2 EXCEPT !.served = @ \cup {rec.target}]
              ELSE r2
    IN  IF Cardinality(r3.completedModels) = Len(r3.expected)
        THEN [disconnect(r3) EXCEPT !.pc = "resolved"]
        ELSE r3

\* the order of status notifications: idle, connecting, connected, then
\* disconnected or error; only a new attempt (connecting) follows those two
StatusFollows(prev, st) ==
    \/ prev = "idle" /\ st \in {"connecting", "disconnected"}
    \/ prev = "connecting" /\ st \in {"connected", "error", "disconnected"}
    \/ prev = "connected" /\ st \in {"disconnected", "error"}
    \/ prev \in {"disconnected", "error"} /\ st = "connecting"

\* callbacks applied to the observer
RECURSIVE Observe(_, _)
Observe(o, calls) ==
    IF calls = <<>> THEN o
    ELSE LET c == Head(calls)
             o1 == IF c.cb = "status"
                   THEN [o EXCEPT !.status = c.status,
                                  !.badStatus = @ \/ ~StatusFollows(o.status, c.status)]
                   ELSE IF c.target \notin ModelIds THEN o
                   ELSE [o EXCEPT
                           !.late[c.target] = @ \/ o.terminals[c.target] > 0,
                           !.terminals[c.target] = IF c.kind \in {"end", "error"} THEN @ + 1 ELSE @,
                           !.synthesized[c.target] = IF c.synth THEN @ + 1 ELSE @]
         IN  Observe(o1, Tail(calls))

(***************************************************************************)
(* The pool: src/app/lib/connectionPool.ts                                 *)
(***************************************************************************)
\* the createConnection calls of the model; call c constructs manager c
Calls == Managers

\* the connectionId arguments
ConnIds == {"c1", "c2", "c3"}

ConnIdSeq == <<"c1", "c2", "c3">>

\* the models argument of every createConnection call
PoolModels == <<"A">>

\* no entry under a connection id
NoConn == [manager |-> 0, status |-> "none", createdAt |-> 0]

\* no cleanupStaleConnections call in the step just taken
NoResult == [maxAge |-> -1, count |-> 0]

\* ChatApp: the entry of modelsState for one model, as far as its run state goes
\* (response: the last assistant message of its history has more than 10 characters)
NewModelState == [isLoading |-> FALSE, error |-> FALSE, response |-> FALSE]

\* ChatApp.handleSSEEvent, the pool's global event handler
handleSSEEvent(ms, ev) ==
    IF ev.kind = "heartbeat" \/ ev.target \notin ModelIds THEN ms
    ELSE IF ev.kind = "chunk" THEN [ms EXCEPT ![ev.target].response = TRUE]
    ELSE IF ev.kind = "error" THEN [ms EXCEPT ![ev.target].isLoading = FALSE, ![ev.target].error = TRUE]
    ELSE IF ev.kind = "end" THEN [ms EXCEPT ![ev.target].isLoading = FALSE]
    ELSE ms

\* ChatApp: the models of a submission
selectedModels == <<"A", "B">>

\* ChatApp: evaluationRequested is null
NoPrompt == "null"

\* ChatApp: evaluationTimeoutRef.current is null
NoTimeout == [prompt |-> NoPrompt, sub |-> 0]

\* ChatApp's own state after its first render
NewChat ==
    [currentPrompt |-> "",
     evaluationRequested |-> NoPrompt,
     evaluationTimeout |-> NoTimeout,       \* the pending timer: currentPrompt of the render that set it
     currentConnection |-> "none",          \* currentConnectionRef.current
     sub |-> 0,                             \* handleSubmit calls made
     newChats |-> 0,                        \* handleNewChat calls made
     latest |-> 0,                          \* the createConnection call of the submission made last, 0 after a new chat
     evaluations |-> <<>>]                  \* the triggerEvaluation calls made by the timer

\* ChatApp: the effect that schedules the evaluation, run after a render
\* with state ch and modelsState ms
evaluationEffect(ch, ms) ==
    IF ch.currentPrompt = "" \/ ch.evaluationRequested = ch.currentPrompt \/ Len(selectedModels) = 0
    THEN ch
    ELSE LET sel == SeqToSet(selectedModels)
             allModelsFinished == \A m \in sel : ~ms[m].isLoading
             hasSuccessfulResponses == \E m \in sel : ~ms[m].error /\ ms[m].response
             modelsWithCompleteResponses ==
                 Cardinality({m \in sel : ~ms[m].error /\ ~ms[m].isLoading /\ ms[m].response})
             required == IF Len(selectedModels) < 2 THEN Len(selectedModels) ELSE 2
         IN  [ch EXCEPT !.evaluationTimeout =
                 IF /\ allModelsFinished
                    /\ hasSuccessfulResponses
                    /\ modelsWithCompleteResponses >= required
                 THEN [prompt |-> ch.currentPrompt, sub |-> ch.sub]
                 ELSE NoTimeout]

\* no closeConnection call in the step just taken
NoClose == [id |-> "none", found |-> FALSE]

NewPool ==
    [connections |-> [id \in ConnIds |-> NoConn],
     activeConnections |-> 0,
     graceTimers |-> [id \in ConnIds |-> 0],     \* pending 5 s timers of handleStatusChange
     closedByAll |-> {},                         \* managers closeAllConnections has closed
     lateInvoked |-> {},                         \* those of them whose callback reached a global handler afterwards
     cleanupResult |-> NoResult,                 \* argument and return value of the cleanupStaleConnections call just made
     closeResult |-> NoClose,                    \* argument of the closeConnection call just made, and whether it found a connection
     modelsState |-> [m \in ModelIds |-> NewModelState]]   \* ChatApp's modelsState atom

NewCall == [pc |-> "idle", id |-> "none", models |-> <<>>, submit |-> FALSE]

PoolSize(p) == Cardinality({id \in ConnIds : p.connections[id] # NoConn})

removeConnection(p, id) ==
    IF p.connections[id] = NoConn THEN p
    ELSE [p EXCEPT !.connections[id] = NoConn,
                   !.activeConnections = IF @ > 0 THEN @ - 1 ELSE @]

\* handleEvent as the onEvent callback of manager g, created under id
handleEvent(p, id, g, ev) ==
    IF id \notin ConnIds \/ p.connections[id] = NoConn THEN p
    ELSE [p EXCEPT !.lateInvoked = @ \cup ({g} \cap p.closedByAll),
                   !.modelsState = handleSSEEvent(@, ev)]

\* handleStatusChange as the onConnectionChange callback of manager g, created under id
handleStatusChange(p, id, g, st) ==
    IF id \notin ConnIds \/ p.connections[id] = NoConn THEN p
    ELSE [p EXCEPT !.connections[id].status = st,
                   !.lateInvoked = @ \cup ({g} \cap p.closedByAll),
                   !.graceTimers[id] = IF st \in {"disconnected", "error"} THEN @ + 1 ELSE @]

RECURSIVE PoolDeliver(_, _, _, _)
\* the callbacks of one step of manager g, in order
PoolDeliver(p, id, g, calls) ==
    IF calls = <<>> THEN p
    ELSE PoolDeliver(IF Head(calls).cb = "status"
                     THEN handleStatusChange(p, id, g, Head(calls).status)
                     ELSE handleEvent(p, id, g, Head(calls)),
                     id, g, Tail(calls))

\* a continuation that is ready to run
Job(k, g, gs) == [k |-> k, g |-> g, gs |-> gs]

\* the consumer side before a step
World ==
    [mgr |-> mgr, obs |-> obs, call |-> call, micro |-> micro, chat |-> chat,
     pool |-> [pool EXCEPT !.cleanupResult = NoResult, !.closeResult = NoClose]]

\* manager g has taken a step to r: its callbacks run (the pool's handlers
\* when the pool made it, else its owner's); an abort of its pending fetch or
\* read rejects that promise, and its settling readies the createConnection
\* call that awaits it
Run(w, g, r) ==
    LET id == w.call[g].id
        aborts == /\ w.mgr[g].controller
                  /\ ~r.controller
                  /\ r.pc \in {"fetching", "reading"}
        settles == /\ w.call[g].pc = "connecting"
                   /\ r.pc \in {"resolved", "rejected"}
                   /\ w.mgr[g].pc \notin {"resolved", "rejected"}
    IN  [mgr |-> [w.mgr EXCEPT ![g] = [r EXCEPT !.out = <<>>]],
         obs |-> IF id \in ConnIds THEN w.obs ELSE [w.obs EXCEPT ![g] = Observe(@, r.out)],
         pool |-> PoolDeliver(w.pool, id, g, r.out),
         call |-> w.call,
         chat |-> w.chat,
         micro |-> [w.micro EXCEPT !.q =
                       IF aborts THEN Append(@, Job("aborted", g, {}))
                       ELSE IF settles THEN Append(@, Job("settled", g, {}))
                       ELSE @]]

\* a settled manager that no pool entry and no continuation refers to and
\* whose timers, if any are left, will find it not connected and do nothing
Collected == [NewManager(<<>>) EXCEPT !.pc = "collected"]

Unreachable(w, g) ==
    /\ w.call[g].id \in ConnIds
    /\ w.call[g].pc \in {"returned", "thrown"}
    /\ w.mgr[g].pc \in {"resolved", "rejected"}
    /\ ~w.mgr[g].isConnected
    /\ ~w.mgr[g].heartbeatTimer
    /\ \A id \in ConnIds : w.pool.connections[id].manager # g
    /\ \A i \in 1..Len(w.micro.q) : w.micro.q[i].g # g /\ g \notin w.micro.q[i].gs

Collect(w) ==
    [w EXCEPT !.mgr = [g \in Managers |-> IF Unreachable(w, g) THEN Collected ELSE w.mgr[g]],
              !.call = [g \in Managers |-> IF Unreachable(w, g) THEN [w.call[g] EXCEPT !.id = "gone"]
                                           ELSE w.call[g]],
              !.pool.closedByAll = {g \in @ : ~Unreachable(w, g)},
              !.micro.owner = @ /\ w.micro.q # <<>>]

Step(w) ==
    /\ LET v == Collect(w)
       IN  /\ mgr' = v.mgr
           /\ obs' = v.obs
           /\ pool' = v.pool
           /\ call' = v.call
           /\ micro' = v.micro
           /\ chat' = evaluationEffect(v.chat, v.pool.modelsState)
    /\ UNCHANGED <<serverVars, reconnectOnDrop, now, parserVars, selectionVars, taggingVars, staggerVars>>

\* no continuation is ready: a timer or the network may call back
NoMicrotask == micro.q = <<>>

\* the owner's code is running or may start to run
OwnerMayCall == micro.q = <<>> \/ micro.owner

\* the consumer side as the owner's code sees it
OwnerWorld == [World EXCEPT !.micro.owner = TRUE]

\* the step of manager g ends in r
Deliver(g, r) ==
    /\ NoMicrotask
    /\ Step(Run(World, g, r))

(***************************************************************************)
(* processChunk: text is a sequence of symbols, a symbol being a line      *)
(* break, one of the two prefixes, or the rest of one line                 *)
(***************************************************************************)
Sym(c, k) == [c |-> c, k |-> k]

NewLine == Sym("\n", 0)

EventPrefix == Sym("event: ", 0)

DataPrefix == Sym("data: ", 0)

\* record k as the server's sendSSEMessage writes it
WireRecord(k) ==
    <<EventPrefix, Sym("name", k), NewLine, DataPrefix, Sym("payload", k), NewLine, NewLine>>

RECURSIVE WireStream(_)
\* the response stream of n records
WireStream(n) == IF n = 0 THEN <<>> ELSE WireStream(n - 1) \o WireRecord(n)

RECURSIVE SplitOn(_, _)
\* text.split(sep)
SplitOn(text, sep) ==
    IF \A i \in 1..Len(text) : text[i] # sep THEN <<text>>
    ELSE LET i == CHOOSE j \in 1..Len(text) :
                      text[j] = sep /\ \A h \in 1..(j-1) : text[h] # sep
         IN  <<SubSeq(text, 1, i - 1)>> \o SplitOn(SubSeq(text, i + 1, Len(text)), sep)

RECURSIVE JoinWith(_, _)
\* parts.join(sep)
JoinWith(parts, sep) ==
    IF parts = <<>> THEN <<>>
    ELSE IF Len(parts) = 1 THEN parts[1]
    ELSE parts[1] \o <<sep>> \o JoinWith(Tail(parts), sep)

RECURSIVE Split(_)
\* text.split('\n')
Split(text) ==
    IF \A i \in 1..Len(text) : text[i] # NewLine THEN <<text>>
    ELSE LET i == CHOOSE j \in 1..Len(text) :
                      text[j] = NewLine /\ \A h \in 1..(j-1) : text[h] # NewLine
         IN  <<SubSeq(text, 1, i - 1)>> \o Split(SubSeq(text, i + 1, Len(text)))

StartsWith(line, prefix) == line # <<>> /\ line[1] = prefix

RECURSIVE ScanLines(_, _, _)
\* the for loop of processChunk; lines carry no blanks for trim() to remove
ScanLines(lines, i, calls) ==
    IF i > Len(lines) THEN calls
    ELSE IF StartsWith(lines[i], EventPrefix)
              /\ i + 1 <= Len(lines) /\ StartsWith(lines[i + 1], DataPrefix)
         THEN ScanLines(lines, i + 2,
                        Append(calls, [event |-> Tail(lines[i]), data |-> Tail(lines[i + 1])]))
         ELSE ScanLines(lines, i + 1, calls)

\* lines.slice(-n)
LastLines(lines, n) ==
    IF Len(lines) <= n THEN lines ELSE SubSeq(lines, Len(lines) - n + 1, Len(lines))

\* the buffer after the text of a chunk was added and, beyond twice
\* bufferSize, all but its last lines were dropped
Truncated(text) ==
    IF Len(text) > bufferSize * 2
    THEN JoinWith(LastLines(Split(text), KeptLines), NewLine)
    ELSE text

\* processChunk handing the events of a chunk to handleSSEEvent before those
\* of the chunks read earlier
processChunkNewestFirst(st, chunk) ==
    LET lines == Split(Truncated(st.buffer \o chunk))
        whole == SubSeq(lines, 1, Len(lines) - 1)
    IN  [buffer |-> lines[Len(lines)],
         dispatched |-> ScanLines(whole, 1, <<>>) \o st.dispatched]

\* processChunk
processChunk(st, chunk) ==
    LET lines == Split(Truncated(st.buffer \o chunk))
        whole == SubSeq(lines, 1, Len(lines) - 1)
    IN  [buffer |-> lines[Len(lines)],
         dispatched |-> ScanLines(whole, 1, st.dispatched)]

RECURSIVE PerRecord(_)
\* what is dispatched when each of n records arrives in a chunk of its own
PerRecord(n) ==
    IF n = 0 THEN [buffer |-> <<>>, dispatched |-> <<>>]
    ELSE processChunk(PerRecord(n - 1), WireRecord(n))

(***************************************************************************)
(* ChatApp's model selection                                               *)
(***************************************************************************)
\* the models of the catalogue, all of status 'available', in its order
openRouterModels == <<"A", "B", "C", "D", "E">>

NoOp == [op |-> "none", m |-> "none"]

\* ChatApp.handleModelToggle adding a model whatever the selection holds
handleModelToggleNoLimit(prev, modelId) ==
    IF modelId \in SeqToSet(prev)
    THEN SelectSeq(prev, LAMBDA id : id # modelId)
    ELSE Append(prev, modelId)

\* ChatApp.handleModelToggle: the updater it hands to setSelectedModels
handleModelToggle(prev, modelId) ==
    IF modelId \in SeqToSet(prev)
    THEN SelectSeq(prev, LAMBDA id : id # modelId)
    ELSE IF Len(prev) >= 4
    THEN prev
    ELSE Append(prev, modelId)

RECURSIVE ToggleEach(_, _)
\* forEach(onModelToggle): the updaters run one after the other
ToggleEach(prev, ids) ==
    IF ids = <<>> THEN prev
    ELSE ToggleEach(handleModelToggle(prev, Head(ids)), Tail(ids))

\* Sidebar.handleSelectAll, on the selection it was rendered with
handleSelectAll(prev, shown) ==
    LET availableModels == SubSeq(openRouterModels, 1, 4)
    IN  ToggleEach(prev, SelectSeq(availableModels, LAMBDA id : id \notin SeqToSet(shown)))

\* Sidebar.handleClearAll, on the selection it was rendered with
handleClearAll(prev, shown) == ToggleEach(prev, shown)

InitSelection ==
    /\ selected = <<>>
    /\ rendered = <<>>
    /\ lastOp = NoOp

\* UNCHANGED of everything but the selection
OnlySelection == UNCHANGED <<serverVars, managerVars, poolVars, parserVars, taggingVars, staggerVars, chatVars>>

\* a click on a model of the Sidebar that is not disabled
ToggleClick(m) ==
    /\ ~(m \notin SeqToSet(rendered) /\ Len(rendered) >= 4)
    /\ selected' = handleModelToggle(selected, m)
    /\ lastOp' = [op |-> "toggle", m |-> m]
    /\ UNCHANGED rendered
    /\ OnlySelection

\* a click on Select All while canSelectAll
SelectAllClick ==
    /\ Len(rendered) < 4
    /\ selected' = handleSelectAll(selected, rendered)
    /\ lastOp' = [op |-> "selectAll", m |-> "none"]
    /\ UNCHANGED rendered
    /\ OnlySelection

\* a click on Clear All while canClearAll
ClearAllClick ==
    /\ Len(rendered) > 0
    /\ selected' = handleClearAll(selected, rendered)
    /\ lastOp' = [op |-> "clearAll", m |-> "none"]
    /\ UNCHANGED rendered
    /\ OnlySelection

\* onFocusModel of the response area
FocusModel(m) ==
    /\ selected' = <<m>>
    /\ lastOp' = [op |-> "focus", m |-> m]
    /\ UNCHANGED rendered
    /\ OnlySelection

\* React renders the Sidebar with the selection as it is
Render ==
    /\ rendered # selected
    /\ rendered' = selected
    /\ UNCHANGED <<selected, lastOp>>
    /\ OnlySelection

NextSelection ==
    \/ \E m \in SeqToSet(openRouterModels) : ToggleClick(m)
    \/ SelectAllClick
    \/ ClearAllClick
    \/ \E m \in SeqToSet(openRouterModels) : FocusModel(m)
    \/ Render

(***************************************************************************)
(* Event names: text is a sequence of characters; a kind is one symbol,    *)
(* as no kind holds an underscore                                          *)
(***************************************************************************)
\* the characters model ids are made of
IdChars == {"a", "_", "/", ":", "-"}

\* the model ids of 1 to MaxIdLen characters
TagIds == UNION {[1..n -> IdChars] : n \in 1..MaxIdLen}

TagKinds == {"chunk", "progress", "error", "end"}

\* the event argument of sendSSEMessage: `${modelName}_<kind>`, or 'heartbeat'
EventName(id, kind) == IF kind = "heartbeat" THEN <<"heartbeat">> ELSE id \o <<"_", kind>>

\* nothing was passed to onEvent
NoEvent == [modelId |-> <<>>, type |-> <<"none">>]

\* handleSSEEvent taking the text before the first underscore for the model
DecodeEventAtFirst(name) ==
    IF name = <<"heartbeat">> THEN [modelId |-> <<>>, type |-> <<"heartbeat">>]
    ELSE LET eventParts == SplitOn(name, "_")
         IN  IF Len(eventParts) < 2 THEN NoEvent
             ELSE [modelId |-> eventParts[1], type |-> eventParts[Len(eventParts)]]

\* handleSSEEvent: the modelId and type of the event it passes to onEvent
DecodeEvent(name) ==
    IF name = <<"heartbeat">> THEN [modelId |-> <<>>, type |-> <<"heartbeat">>]
    ELSE LET eventParts == SplitOn(name, "_")
         IN  IF Len(eventParts) < 2 THEN NoEvent
             ELSE [modelId |-> JoinWith(SubSeq(eventParts, 1, Len(eventParts) - 1), "_"),
                   type |-> eventParts[Len(eventParts)]]

\* no record is being written
InitTaggingIdle ==
    /\ tagId = <<>>
    /\ tagKind = "none"
    /\ tagName = <<>>
    /\ decoded = NoEvent

\* a record of some model and kind, or a heartbeat, is about to be written
InitTagging ==
    /\ \/ tagId \in TagIds /\ tagKind \in TagKinds
       \/ tagId = <<>> /\ tagKind = "heartbeat"
    /\ tagName = <<>>
    /\ decoded = NoEvent

OnlyTagging == UNCHANGED <<serverVars, managerVars, poolVars, parserVars, selectionVars, staggerVars, chatVars>>

\* the server calls sendSSEMessage with the event name
WriteTagged ==
    /\ tagName = <<>>
    /\ tagName' = EventName(tagId, tagKind)
    /\ UNCHANGED <<tagId, tagKind, decoded>>
    /\ OnlyTagging

\* the client's handleSSEEvent gets the name
DecodeTagged ==
    /\ tagName # <<>>
    /\ decoded = NoEvent
    /\ decoded' = DecodeEvent(tagName)
    /\ UNCHANGED <<tagId, tagKind, tagName>>
    /\ OnlyTagging

NextTagging == WriteTagged \/ DecodeTagged

\* no stream is being read
InitParserIdle ==
    /\ records = 0
    /\ wire = <<>>
    /\ buffer = <<>>
    /\ dispatched = <<>>

\* a manager starts to read a response of 1..MaxRecords records
InitParser ==
    /\ records \in 1..MaxRecords
    /\ wire = WireStream(records)
    /\ buffer = <<>>
    /\ dispatched = <<>>

\* processStream: reader.read() delivers the next n symbols as one chunk
ReadChunk(n) ==
    /\ n \in 1..Len(wire)
    /\ LET st == processChunk([buffer |-> buffer, dispatched |-> dispatched], SubSeq(wire, 1, n))
       IN  /\ buffer' = st.buffer
           /\ dispatched' = st.dispatched
    /\ wire' = SubSeq(wire, n + 1, Len(wire))
    /\ UNCHANGED <<serverVars, managerVars, poolVars, records, selectionVars, taggingVars, staggerVars, chatVars>>

\* the longest chunk: a whole record
MaxChunkLen == Len(WireRecord(1))

NextParser == \E n \in 1..MaxChunkLen : ReadChunk(n)

\* the longest burst: the whole response in one read
MaxBurstLen == MaxRecords * Len(WireRecord(1))

\* reads of any length
NextBurst == \E n \in 1..MaxBurstLen : ReadChunk(n)

InitIdleManagers ==
    /\ InitParserIdle
    /\ InitSelection
    /\ InitTaggingIdle
    /\ chat = NewChat
    /\ reconnectOnDrop = TRUE
    /\ mgr = [g \in Managers |-> NewManager(<<>>)]
    /\ obs = [g \in Managers |-> NewObserver]

\* the models of the one manager of SpecManager
expectedModels == <<"A", "B", "C", "D">>

InitManager ==
    /\ InitParserIdle
    /\ InitSelection
    /\ InitTaggingIdle
    /\ chat = NewChat
    /\ reconnectOnDrop \in BOOLEAN
    /\ mgr = [g \in Managers |-> NewManager(IF g = 1 THEN expectedModels ELSE <<>>)]
    /\ obs = [g \in Managers |-> NewObserver]

\* the owner calls connectWithMessages(messages, models)
Connect(g) ==
    /\ mgr[g].pc = "new"
    /\ Deliver(g, connectWithMessages(mgr[g], mgr[g].expected))

\* what the fetch of connectWithMessages can come back with
FetchOutcomes == {"ok", "http401", "http500", "network", "nobody"}

\* connectWithMessages: the fetch settles
FetchSettles(g, outcome) ==
    /\ mgr[g].pc = "fetching"
    /\ mgr[g].controller
    /\ LET r == mgr[g]
       IN  IF outcome = "ok"
           THEN Deliver(g, onConnectionChange(
                               [r EXCEPT !.reader = TRUE, !.isConnected = TRUE,
                                         !.quiet = FALSE, !.heartbeatTimer = TRUE,
                                         !.pc = "reading"],
                               "connected"))
           ELSE Deliver(g, ConnectFailed(r, outcome))

\* the records the response may carry next
NextRecords(r) ==
    {[target |-> "", kind |-> "heartbeat", retryable |-> FALSE]}
    \cup {[target |-> m, kind |-> k, retryable |-> b] :
            m \in SeqToSet(r.requested) \ r.served,
            k \in {"chunk", "end", "error"}, b \in {FALSE}}

\* processStream: reader.read() delivers one record
ReadRecord(g, rec) ==
    /\ mgr[g].pc = "reading"
    /\ mgr[g].controller
    /\ rec \in NextRecords(mgr[g])
    /\ Deliver(g, ProcessRecord(mgr[g], rec))

\* records whose event name holds no underscore
MalformedRecords ==
    {[target |-> n, kind |-> "malformed", retryable |-> FALSE] : n \in {"bogus", "end"}}

\* processStream: reader.read() delivers a record with such a name
ReadMalformed(g) ==
    /\ mgr[g].pc = "reading"
    /\ mgr[g].controller
    /\ \E rec \in MalformedRecords : Deliver(g, ProcessRecord(mgr[g], rec))

\* processStream: reader.read() reports the end of the response
ReadDone(g) ==
    /\ mgr[g].pc = "reading"
    /\ mgr[g].controller
    /\ LET r == mgr[g]
       IN  IF Cardinality(r.completedModels) < Len(r.expected) /\ reconnectOnDrop
           THEN Deliver(g, handleUnexpectedDisconnection(TransportEnded(r)))
           ELSE Deliver(g, [handleStreamEnd(TransportEnded(r)) EXCEPT !.pc = "resolved"])

\* processStream: reader.read() rejects because the transport failed
ReadFails(g) ==
    /\ mgr[g].pc = "reading"
    /\ mgr[g].controller
    /\ LET r == mgr[g]
       IN  IF reconnectOnDrop /\ r.reconnectAttempts < maxReconnectAttempts
           THEN Deliver(g, handleUnexpectedDisconnection(TransportEnded(r)))
           ELSE Deliver(g, ConnectFailed(TransportEnded(r), "network"))

\* handleUnexpectedDisconnection after its delay
ReconnectDelayElapsed(g) ==
    /\ mgr[g].pc = "reconnectDelay"
    /\ Deliver(g, [SynthesizeErrors(mgr[g], mgr[g].expected) EXCEPT !.pc = "resolved"])

\* retryWithMessages after its delay, while fewer than limit requests were issued
RetryAfterDelay(g, limit) ==
    /\ mgr[g].pc = "retryDelay"
    /\ mgr[g].connects < limit
    /\ Deliver(g, connectWithMessages(mgr[g], mgr[g].expected))

RetryDelayElapsed(g) == RetryAfterDelay(g, MaxConnects)

\* the setTimeout callback of setupTimeout
TimeoutFires(g) ==
    /\ mgr[g].timeoutTimer
    /\ LET r == [mgr[g] EXCEPT !.timeoutTimer = FALSE]
       IN  Deliver(g, IF r.isConnected THEN disconnect(r) ELSE r)

\* more than 2 * heartbeatInterval go by without a byte
QuietPasses(g) ==
    /\ mgr[g].heartbeatTimer
    /\ ~mgr[g].quiet
    /\ Deliver(g, [mgr[g] EXCEPT !.quiet = TRUE])

\* the setInterval callback of startHeartbeat, without its disconnect()
HeartbeatTimerTickWarns(g) ==
    /\ mgr[g].heartbeatTimer
    /\ mgr[g].quiet
    /\ Deliver(g, [mgr[g] EXCEPT !.staleClosed = TRUE])

\* the setInterval callback of startHeartbeat
HeartbeatTimerTick(g) ==
    /\ mgr[g].heartbeatTimer
    /\ mgr[g].quiet
    /\ Deliver(g, disconnect([mgr[g] EXCEPT !.staleClosed = TRUE]))

\* the owner calls disconnect()
Disconnect(g) ==
    /\ OwnerMayCall
    /\ LET w == Run(OwnerWorld, g, disconnect(mgr[g]))
       IN  Step([w EXCEPT !.obs[g].cancelled = TRUE])

ManagerStep(g) ==
    \/ Connect(g)
    \/ \E outcome \in FetchOutcomes : FetchSettles(g, outcome)
    \/ \E rec \in NextRecords(mgr[g]) : ReadRecord(g, rec)
    \/ ReadMalformed(g)
    \/ ReadDone(g)
    \/ ReadFails(g)
    \/ ReconnectDelayElapsed(g)
    \/ RetryDelayElapsed(g)
    \/ TimeoutFires(g)
    \/ QuietPasses(g)
    \/ HeartbeatTimerTick(g)
    \/ Disconnect(g)

maxConcurrentConnections == 2

\* closeConnection without its removeConnection call
closeConnectionKeeps(w, id) ==
    IF w.pool.connections[id] = NoConn THEN w
    ELSE Run(w, w.pool.connections[id].manager, disconnect(w.mgr[w.pool.connections[id].manager]))

closeConnection(w, id) ==
    IF w.pool.connections[id] = NoConn THEN w
    ELSE LET g == w.pool.connections[id].manager
             w1 == Run(w, g, disconnect(w.mgr[g]))
         IN  [w1 EXCEPT !.pool = removeConnection(@, id)]

RECURSIVE CloseEach(_, _)
CloseEach(w, ids) ==
    IF ids = <<>> THEN w ELSE CloseEach(closeConnection(w, Head(ids)), Tail(ids))

\* closeAllConnections up to its await; its promise resolves after the
\* continuations its closeConnection calls have readied
closeAllConnections(w) ==
    LET w1 == CloseEach(w, ConnIdSeq)
        gs == {w.pool.connections[id].manager : id \in {i \in ConnIds : w.pool.connections[i] # NoConn}}
    IN  [w1 EXCEPT !.micro.q = Append(@, Job("closedAll", 0, gs))]

\* the test of cleanupStaleConnections, without its status part
IsStaleAnyStatus(c, maxAge, t) ==
    t - c.createdAt > maxAge

\* the test of cleanupStaleConnections
IsStale(c, maxAge, t) ==
    /\ t - c.createdAt > maxAge
    /\ c.status \in {"disconnected", "error"}

RECURSIVE CleanupLoop(_, _, _, _)
CleanupLoop(p, ids, maxAge, t) ==
    IF ids = <<>> THEN p
    ELSE LET id == Head(ids)
             c == p.connections[id]
         IN  CleanupLoop(IF c # NoConn /\ IsStale(c, maxAge, t)
                         THEN [removeConnection(p, id) EXCEPT !.cleanupResult.count = @ + 1]
                         ELSE p,
                         Tail(ids), maxAge, t)

cleanupStaleConnections(p, maxAge, t) ==
    CleanupLoop([p EXCEPT !.cleanupResult = [maxAge |-> maxAge, count |-> 0]], ConnIdSeq, maxAge, t)

\* createConnection from the construction of the manager to the await of its connect
Register(w, c) ==
    LET id == w.call[c].id
        w1 == [w EXCEPT !.pool.connections[id] =
                            [manager |-> c, status |-> "connecting", createdAt |-> now],
                        !.pool.activeConnections = @ + 1,
                        !.call[c].pc = "connecting"]
    IN  Run(w1, c, connectWithMessages(NewManager(w.call[c].models), w.call[c].models))

\* createConnection after the connection limit check
AfterSlot(w, c) ==
    IF w.pool.connections[w.call[c].id] # NoConn
    THEN [closeConnection(w, w.call[c].id) EXCEPT !.call[c].pc = "closing",
                                                   !.micro.q = Append(@, Job("resume", c, {}))]
    ELSE Register(w, c)

\* connection ids something still refers to (an entry, a timer, a call or a
\* manager's callbacks), and the first of the others
UsedIds ==
    {id \in ConnIds : \/ pool.connections[id] # NoConn
                      \/ pool.graceTimers[id] > 0
                      \/ chat.currentConnection = id
                      \/ \E c \in Calls : call[c].id = id}

FreshIds == {ConnIdSeq[i] : i \in {j \in 1..Len(ConnIdSeq) :
                /\ ConnIdSeq[j] \notin UsedIds
                /\ \A k \in 1..(j-1) : ConnIdSeq[k] \in UsedIds}}

\* the owner calls createConnection(messages, models, id)
CreateConnection(c, id) ==
    /\ call[c].pc = "idle"
    /\ \A d \in Calls : d < c => call[d].pc # "idle"
    /\ id \in UsedIds \cup FreshIds
    /\ OwnerMayCall
    /\ LET w == [OwnerWorld EXCEPT !.call[c].id = id, !.call[c].models = PoolModels]
       IN  IF w.pool.activeConnections >= maxConcurrentConnections
           THEN Step([w EXCEPT !.call[c].pc = "waiting"])
           ELSE Step(AfterSlot(w, c))

\* ChatApp.handleSubmit: the catch of its createConnection call
submitFailed(p, cl) ==
    IF ~cl.submit THEN p
    ELSE [p EXCEPT !.modelsState =
             [m \in ModelIds |-> IF m \in SeqToSet(cl.models)
                                 THEN [@[m] EXCEPT !.isLoading = FALSE, !.error = TRUE]
                                 ELSE @[m]]]

\* ChatApp.handleSubmit with no connection open: the selected models start
\* loading and createConnection is called without an id
Submit(c) ==
    /\ call[c].pc = "idle"
    /\ OwnerMayCall
    /\ \E id \in FreshIds :
           LET w == [OwnerWorld EXCEPT
                        !.call[c] = [pc |-> "idle", id |-> id, models |-> selectedModels, submit |-> TRUE],
                        !.pool.modelsState =
                            [m \in ModelIds |-> IF m \in SeqToSet(selectedModels)
                                                THEN [@[m] EXCEPT !.isLoading = TRUE, !.error = FALSE]
                                                ELSE @[m]]]
           IN  IF w.pool.activeConnections >= maxConcurrentConnections
               THEN Step([w EXCEPT !.call[c].pc = "waiting"])
               ELSE Step(AfterSlot(w, c))

\* ChatApp.handleSubmit from its setModelsState calls on: the selected
\* models start loading and createConnection is called without an id
submitReset(w, c, id) ==
    LET w1 == [w EXCEPT
                  !.call[c] = [pc |-> "idle", id |-> id, models |-> selectedModels, submit |-> TRUE],
                  !.chat.latest = c,
                  !.pool.modelsState =
                      [m \in ModelIds |-> IF m \in SeqToSet(selectedModels)
                                          THEN [@[m] EXCEPT !.isLoading = TRUE, !.error = FALSE]
                                          ELSE @[m]]]
    IN  IF w1.pool.activeConnections >= maxConcurrentConnections
        THEN [w1 EXCEPT !.call[c].pc = "waiting"]
        ELSE AfterSlot(w1, c)

\* the continuation that is first in line runs
RunMicrotask ==
    /\ micro.q # <<>>
    /\ LET job == Head(micro.q)
           w == [World EXCEPT !.micro.q = Tail(@)]
           g == job.g
       IN  CASE job.k = "aborted" ->
                  \* connectWithMessages after its fetch, or processStream
                  \* after its read, has rejected with an AbortError
                  IF w.mgr[g].pc = "fetching"
                  THEN Step(Run(w, g, ConnectFailed(w.mgr[g], "abort")))
                  ELSE Step(Run(w, g, [w.mgr[g] EXCEPT !.pc = "resolved"]))
             [] job.k = "settled" ->
                  \* createConnection after its await of the manager's connect
                  \* (handleSubmit's then() keeps the id it resolved with)
                  IF w.mgr[g].pc = "resolved"
                  THEN Step([w EXCEPT !.call[g].pc = "returned",
                                      !.chat.currentConnection =
                                          IF w.call[g].submit THEN w.call[g].id ELSE @])
                  ELSE Step([w EXCEPT !.call[g].pc = "thrown",
                                      !.pool = submitFailed(removeConnection(@, w.call[g].id), w.call[g])])
             [] job.k = "resume" ->
                  \* createConnection after its await of closeConnection
                  Step(Register(w, g))
             [] job.k = "submit" ->
                  \* handleSubmit after its await of closeConnection
                  \E id \in FreshIds : Step(submitReset(w, g, id))
             [] OTHER ->
                  \* closeAllConnections has completed
                  Step([w EXCEPT !.pool.closedByAll = @ \cup job.gs])

\* checkSlot of waitForAvailableSlot finds a slot; createConnection goes on
PollSlot(c) ==
    /\ call[c].pc = "waiting"
    /\ NoMicrotask
    /\ pool.activeConnections < maxConcurrentConnections
    /\ Step(AfterSlot(World, c))

\* the owner calls closeConnection(id)
CloseConnection(id) ==
    /\ pool.connections[id] # NoConn
    /\ OwnerMayCall
    /\ Step(closeConnection(OwnerWorld, id))

\* the owner calls closeConnection(id) with any id, and the call is noted
CloseConnectionReturns(id) ==
    /\ OwnerMayCall
    /\ Step([closeConnection(OwnerWorld, id) EXCEPT
                !.pool.closeResult = [id |-> id, found |-> pool.connections[id] # NoConn]])

\* the owner calls closeAllConnections()
CloseAllConnections ==
    /\ PoolSize(pool) > 0
    /\ OwnerMayCall
    /\ Step(closeAllConnections(OwnerWorld))

\* time, in units of the ages cleanupStaleConnections compares
MaxTime == 1

\* the maxAge arguments: any age, and ages within the time the model covers
MaxAges == -1..MaxTime

\* the owner calls cleanupStaleConnections(maxAge)
CleanupStaleConnections(maxAge) ==
    /\ PoolSize(pool) > 0
    /\ OwnerMayCall
    /\ Step([OwnerWorld EXCEPT !.pool = [cleanupStaleConnections(@, maxAge, now) EXCEPT !.cleanupResult = NoResult]])

\* the owner calls cleanupStaleConnections(maxAge) and keeps what it returns
CleanupStaleReturns(maxAge) ==
    /\ PoolSize(pool) > 0
    /\ OwnerMayCall
    /\ Step([OwnerWorld EXCEPT !.pool = cleanupStaleConnections(@, maxAge, now)])

\* the 5 s timer of handleStatusChange fires
GraceElapsed(id) ==
    /\ NoMicrotask
    /\ pool.graceTimers[id] > 0
    /\ Step([World EXCEPT !.pool = removeConnection([@ EXCEPT !.graceTimers[id] = @ - 1], id)])

\* the prompts the user submits
Prompts == {"p", "q"}

\* the handleSubmit and handleNewChat calls the model follows
MaxSubmits == 2

MaxNewChats == 1

\* the user submits prompt: ChatApp.handleSubmit up to its await of
\* closeConnection, or to its end when currentConnectionRef holds no id
HandleSubmit(c, prompt) ==
    /\ call[c].pc = "idle"
    /\ \A d \in Calls : d < c => call[d].pc # "idle"
    /\ NoMicrotask
    /\ chat.sub < MaxSubmits
    /\ LET w == [World EXCEPT !.chat.currentPrompt = prompt, !.chat.sub = @ + 1]
       IN  IF chat.currentConnection # "none"
           THEN Step([closeConnection(w, chat.currentConnection) EXCEPT
                         !.call[c].pc = "submitting",
                         !.micro.q = Append(@, Job("submit", c, {}))])
           ELSE \E id \in FreshIds : Step(submitReset(w, c, id))

\* the user starts a new chat: ChatApp.handleNewChat
HandleNewChat ==
    /\ NoMicrotask
    /\ chat.newChats < MaxNewChats
    /\ chat.sub > 0
    /\ LET w == IF chat.currentConnection # "none"
                THEN closeConnection(World, chat.currentConnection)
                ELSE World
       IN  Step([w EXCEPT !.pool.modelsState = [m \in ModelIds |-> NewModelState],
                          !.chat = [@ EXCEPT !.currentConnection = "none",
                                             !.currentPrompt = "",
                                             !.evaluationRequested = NoPrompt,
                                             !.evaluationTimeout = NoTimeout,
                                             !.latest = 0,
                                             !.newChats = @ + 1]])

\* the timer of the evaluation effect fires: evaluationRequested is set and
\* triggerEvaluation is called, both of the render that set the timer
EvaluationTimeoutFires ==
    /\ NoMicrotask
    /\ chat.evaluationTimeout # NoTimeout
    /\ Step([World EXCEPT !.chat =
                [@ EXCEPT !.evaluationRequested = chat.evaluationTimeout.prompt,
                          !.evaluationTimeout = NoTimeout,
                          !.evaluations = Append(@,
                              [sub |-> chat.evaluationTimeout.sub,
                               loading |-> {m \in SeqToSet(selectedModels) :
                                               pool.modelsState[m].isLoading}])]])

Tick ==
    /\ NoMicrotask
    /\ now < MaxTime
    /\ now' = now + 1
    /\ pool' = World.pool
    /\ UNCHANGED <<serverVars, managerVars, call, micro, parserVars, selectionVars, taggingVars, staggerVars, chatVars>>

InitPool ==
    /\ pool = NewPool
    /\ call = [c \in Calls |-> NewCall]
    /\ micro = [q |-> <<>>, owner |-> FALSE]
    /\ now = 0

\* the createConnection calls of SpecPool
PoolCalls == {1, 2, 3}

NextPool ==
    \/ \E c \in PoolCalls, id \in ConnIds : CreateConnection(c, id)
    \/ RunMicrotask
    \/ \E c \in PoolCalls : PollSlot(c)
    \/ \E id \in ConnIds : CloseConnection(id)
    \/ CloseAllConnections
    \/ \E maxAge \in MaxAges : CleanupStaleConnections(maxAge)
    \/ \E id \in ConnIds : GraceElapsed(id)
    \/ \E g \in Managers, outcome \in {"ok", "http401"} : FetchSettles(g, outcome)
    \/ \E g \in Managers : \E rec \in NextRecords(mgr[g]) : ReadRecord(g, rec)
    \/ \E g \in Managers : ReadDone(g)
    \/ \E g \in Managers : ReconnectDelayElapsed(g)

\* the pool of ChatApp after its construction, no connection made yet
InitPoolOnly ==
    /\ InitServer
    /\ apiKey = TRUE
    /\ InitIdleManagers
    /\ InitPool

SpecPool == InitPoolOnly /\ [][NextPool]_vars

\* the pool under more createConnection calls than it has slots, every
\* response still streaming or refused
NextLimit ==
    \/ \E c \in Calls, id \in ConnIds : CreateConnection(c, id)
    \/ RunMicrotask
    \/ \E c \in Calls : PollSlot(c)
    \/ \E id \in ConnIds : CloseConnection(id)
    \/ CloseAllConnections
    \/ \E maxAge \in MaxAges : CleanupStaleConnections(maxAge)
    \/ \E id \in ConnIds : GraceElapsed(id)
    \/ \E g \in Managers, outcome \in {"ok", "http401"} : FetchSettles(g, outcome)

SpecLimit == InitPoolOnly /\ [][NextLimit]_vars


\* the createConnection calls of SpecCleanup
ClockCalls == {1, 2}

NextCleanup ==
    \/ \E c \in ClockCalls, id \in ConnIds : CreateConnection(c, id)
    \/ RunMicrotask
    \/ \E maxAge \in MaxAges : CleanupStaleReturns(maxAge)
    \/ \E id \in ConnIds : CloseConnectionReturns(id)
    \/ \E id \in ConnIds : GraceElapsed(id)
    \/ Tick
    \/ \E g \in ClockCalls, outcome \in FetchOutcomes : FetchSettles(g, outcome)
    \/ \E g \in ClockCalls : \E rec \in NextRecords(mgr[g]) : ReadRecord(g, rec)
    \/ \E g \in ClockCalls : RetryDelayElapsed(g)

SpecCleanup == InitPoolOnly /\ [][NextCleanup]_vars

\* ChatApp with one submission over its pool
NextApp ==
    \/ Submit(1)
    \/ RunMicrotask
    \/ \E outcome \in FetchOutcomes : FetchSettles(1, outcome)
    \/ \E rec \in NextRecords(mgr[1]) : ReadRecord(1, rec)
    \/ ReadDone(1)
    \/ ReadFails(1)
    \/ ReconnectDelayElapsed(1)
    \/ RetryDelayElapsed(1)
    \/ TimeoutFires(1)
    \/ QuietPasses(1)
    \/ HeartbeatTimerTick(1)
    \/ \E id \in ConnIds : GraceElapsed(id)

SpecApp == InitPoolOnly /\ [][NextApp]_vars

\* the createConnection calls of SpecChat
ChatCalls == 1..MaxSubmits

\* what the network, the timers and the promise continuations do (with
\* MaxSubmits connections the two slots of ChatApp's pool are never all taken)
ChatProgress ==
    \/ RunMicrotask
    \/ \E g \in ChatCalls, outcome \in {"ok", "http401"} : FetchSettles(g, outcome)
    \/ \E g \in ChatCalls : \E rec \in NextRecords(mgr[g]) : ReadRecord(g, rec)
    \/ \E g \in ChatCalls : ReadDone(g)
    \/ \E g \in ChatCalls : ReconnectDelayElapsed(g)
    \/ \E id \in ConnIds : GraceElapsed(id)
    \/ EvaluationTimeoutFires

\* ChatApp with a user who submits prompts and starts new chats
NextChat ==
    \/ \E c \in ChatCalls, prompt \in Prompts : HandleSubmit(c, prompt)
    \/ HandleNewChat
    \/ ChatProgress

SpecChat == InitPoolOnly /\ [][NextChat]_vars

\* continuations that are ready run, and the evaluation timer fires
SpecChatFair == SpecChat /\ WF_vars(RunMicrotask) /\ WF_vars(EvaluationTimeoutFires)

NextManager ==
    \/ ManagerStep(1)
    \/ RunMicrotask

\* the route with no consumer-side object constructed
InitServerOnly ==
    /\ InitServer
    /\ InitIdleManagers
    /\ InitPool

SpecServer == InitServerOnly /\ [][NextServer]_vars

\* the route with upstreams that answer and may send error objects
NextUpstream ==
    \/ Dispatch /\ UNCHANGED staggerVars
    \/ \E m \in Targets : StaggerElapsed(m) /\ UNCHANGED staggerVars
    \/ \E m \in Targets, resp \in {r \in Responses : r.kind = "ok"} :
          FetchResponds(m, resp) /\ UNCHANGED staggerVars
    \/ \E m \in Targets, item \in ReadItems, text \in ReadErrorTexts :
          Read(m, item, text) /\ UNCHANGED staggerVars
    \/ \E m \in Targets : ReadErrorObject(m) /\ UNCHANGED staggerVars
    \/ HeartbeatTick /\ UNCHANGED staggerVars
    \/ AllSettled /\ UNCHANGED staggerVars

SpecUpstream == InitServerOnly /\ [][NextUpstream]_vars

SpecStagger == InitServerOnly /\ [][NextStagger]_vars

\* one manager constructed by its owner, no pool in use
InitManagerOnly ==
    /\ InitServer
    /\ apiKey = TRUE
    /\ InitManager
    /\ InitPool

SpecManager == InitManagerOnly /\ [][NextManager]_vars

\* the failures of a fetch that shouldRetry lets be retried
RetryableFailures == {"http500", "network", "nobody"}

\* one manager none of whose requests is answered
NextRetry ==
    \/ Connect(1)
    \/ \E outcome \in RetryableFailures : FetchSettles(1, outcome)
    \/ RetryAfterDelay(1, MaxRequests)
    \/ TimeoutFires(1)
    \/ Disconnect(1)
    \/ RunMicrotask

SpecRetry == InitManagerOnly /\ [][NextRetry]_vars

\* one manager reading one response stream, cut into chunks in every way
InitParserOnly ==
    /\ InitServer
    /\ apiKey = TRUE
    /\ reconnectOnDrop = TRUE
    /\ mgr = [g \in Managers |-> NewManager(<<>>)]
    /\ obs = [g \in Managers |-> NewObserver]
    /\ InitPool
    /\ InitParser
    /\ InitSelection
    /\ InitTaggingIdle
    /\ chat = NewChat

SpecParser == InitParserOnly /\ [][NextParser]_vars

SpecBurst == InitParserOnly /\ [][NextBurst]_vars

\* one record written by the server and decoded by the client
InitTaggingOnly ==
    /\ InitServer
    /\ apiKey = TRUE
    /\ reconnectOnDrop = TRUE
    /\ mgr = [g \in Managers |-> NewManager(<<>>)]
    /\ obs = [g \in Managers |-> NewObserver]
    /\ InitPool
    /\ InitParserIdle
    /\ InitSelection
    /\ InitTagging
    /\ chat = NewChat

SpecTagging == InitTaggingOnly /\ [][NextTagging]_vars

SpecSelection == InitPoolOnly /\ [][NextSelection]_vars

\* one manager asked for two models
InitTwoModels ==
    /\ InitServer
    /\ InitParserIdle
    /\ InitSelection
    /\ InitTaggingIdle
    /\ chat = NewChat
    /\ apiKey = TRUE
    /\ reconnectOnDrop \in BOOLEAN
    /\ mgr = [g \in Managers |-> NewManager(IF g = 1 THEN selectedModels ELSE <<>>)]
    /\ obs = [g \in Managers |-> NewObserver]
    /\ InitPool

\* the interval timer of startHeartbeat keeps firing while it is armed
SpecManagerFair == InitTwoModels /\ [][NextManager]_vars /\ WF_vars(HeartbeatTimerTick(1))


(***************************************************************************)
(* Properties of the server                                                *)
(***************************************************************************)
ErrorRecords(m) == SelectSeq(sent[m], LAMBDA r : r.kind = "error")

HasChunk(m) == \E i \in 1..Len(sent[m]) : sent[m][i].kind = "chunk"

RetryableClasses == {"ratelimit", "server", "network", "timeout"}

\* C2: a target whose upstream answered with a fatal status (4xx other than
\* 429) is finished with exactly one error record carrying retryable=false,
\* and no further upstream request is prepared for it.
C2_FatalNeverRetried ==
    \A m \in Targets :
        lastResp[m] = "fatal4xx" =>
            /\ apc[m] = "done"
            /\ connectionActive => ErrorRecords(m) = <<Record(m, "error", "", FALSE)>>

\* C3: while only 429 responses have been seen, each backoff delay is
\* 2^attempt * 2000 ms plus a jitter below 1000 ms and strictly larger than
\* the one before, and no chunk record exists for a target that is still
\* requesting, so chunks follow the third retry.
C3_RateLimitBackoff ==
    [][\A m \in Targets :
          /\ (apc[m] = "fetching" /\ apc'[m] = "backoff" /\ lastResp'[m] = "ratelimit"
                  /\ rateLimitRetries[m] = retryCount[m])
                => /\ lastDelay'[m] > lastDelay[m]
                   /\ lastDelay'[m] >= Pow2(retryCount[m]) * 2000
                   /\ lastDelay'[m] < Pow2(retryCount[m]) * 2000 + 1000
          /\ apc'[m] \in {"stagger", "fetching", "backoff"} => ~HasChunk(m)'
          /\ (HasChunk(m)' /\ rateLimitRetries'[m] = maxRetries) => retryCount'[m] = maxRetries
      ]_vars

\* C3 witness: chunks of a target that was rate-limited three times
C3_Witness ==
    \E m \in Targets : HasChunk(m) /\ rateLimitRetries[m] = 3 /\ lastDelay[m] >= 8000

C5_RetryableFlagMatchesClass ==
    \A m \in Targets :
        (apc[m] = "done" /\ ErrorRecords(m) # <<>>) =>
            LET r == ErrorRecords(m)[Len(ErrorRecords(m))]
            IN  /\ lastResp[m] \in RetryableClasses => r.retryable
                /\ lastResp[m] = "fatal4xx" => ~r.retryable

\* C6: what an adapter emits does not depend on the other targets: while the
\* consumer has not cancelled the stream, the terminal record of a finishing
\* adapter is written whatever the other adapters did or failed to do.
C6_TerminalWrittenWhateverOthersDo ==
    [][\A m \in Targets :
          (apc[m] # "done" /\ apc'[m] = "done" /\ transport = "open")
            => /\ Len(sent'[m]) = Len(sent[m]) + 1
               /\ sent'[m][Len(sent'[m])].kind \in {"end", "error"}
      ]_vars

\* the terminal records written for model m
TerminalRecords(m) == SelectSeq(sent[m], LAMBDA ev : ev.kind \in {"end", "error"})

\* C16: when the server has closed an outbound stream its consumer had not
\* cancelled, every requested model has a terminal record (end or error) on
\* the stream, and the record written last is a heartbeat.
C16_CloseAfterAllTerminal ==
    transport = "closed" =>
        /\ \A m \in Targets : TerminalRecords(m) # <<>>
        /\ lastSent = "heartbeat"

\* C17: once the consumer has cancelled the outbound stream, no adapter
\* goes on with its upstream request: none leaves its stagger or backoff
\* delay for a fetch, none takes a response and none reads more of one; the
\* only step left to an adapter is to finish.
C17_CancelStopsUpstreams ==
    [][transport = "cancelled" =>
          \A m \in Targets : apc'[m] # apc[m] => apc'[m] = "done"]_vars

\* C27: the heartbeat tick that finds the server to have emitted no event
\* for longer than 120 s closes the outbound stream towards the consumer in
\* that tick, whether or not the upstream adapters have returned.
C27_StaleStreamForceClosed ==
    [][(/\ phase = "running" /\ phase' = "running"
        /\ connectionActive /\ stale
        /\ heartbeatInterval /\ ~heartbeatInterval')
            => transport' # "open"]_vars

\* the records of one model so far are a beginning of: progress(connecting),
\* optionally progress(streaming) and chunks after it, one terminal record
OrderlyRecords(s) ==
    /\ Len(s) >= 1 => (s[1].kind = "progress" /\ s[1].info = "connecting")
    /\ \A i \in 2..Len(s) :
          \/ s[i].kind = "progress" /\ s[i].info = "streaming" /\ i = 2
          \/ s[i].kind = "chunk" /\ s[2].kind = "progress" /\ s[2].info = "streaming"
          \/ s[i].kind \in {"end", "error"} /\ i = Len(s)

\* C28: on the outbound stream the records of each requested model are
\* progress(connecting), then optionally progress(streaming) followed by
\* chunks, then a terminal record; nothing for the model follows its terminal
\* record, and a stream the server has closed holds exactly one terminal
\* record for each model.
C28_RecordsOfOneModel ==
    \A m \in Targets :
        /\ OrderlyRecords(sent[m])
        /\ transport = "closed" => Len(TerminalRecords(m)) = 1

\* C29: when the body of a model's upstream response ends without the
\* [DONE] marker and the consumer has not cancelled the stream, the adapter
\* writes exactly one terminal record for the model: end if a chunk was
\* written for it, error if none was.
C29_EndOfBodyWithoutMarker ==
    [][\A m \in Targets :
          (apc[m] = "streaming" /\ apc'[m] = "done" /\ lastResp'[m] = "eof" /\ transport = "open")
            => /\ Len(sent'[m]) = Len(sent[m]) + 1
               /\ sent'[m][Len(sent'[m])].kind = (IF HasChunk(m) THEN "end" ELSE "error")
               /\ Len(TerminalRecords(m)) = 0
      ]_vars

\* C30: when a data record of a model's upstream response carries an error
\* object while the outbound stream is in use, the adapter finishes the
\* model with an error record.
C30_UpstreamErrorObjectTerminates ==
    [][\A m \in Targets :
          (/\ apc[m] = "streaming" /\ connectionActive /\ transport = "open"
           /\ lastResp[m] # "errorObject" /\ lastResp'[m] = "errorObject")
            => /\ apc'[m] = "done"
               /\ Len(sent'[m]) = Len(sent[m]) + 1
               /\ sent'[m][Len(sent'[m])].kind = "error"
      ]_vars

\* C31: the adapter of the model at index i of the request issues its first
\* upstream fetch no earlier than i * 2000 ms after the adapters were
\* started, and whatever the other adapters are doing, an adapter whose
\* start delay is over can start, one whose backoff runs can end it, and one
\* whose fetch is pending can take its response.
C31_StaggeredIndependentStart ==
    \A m \in Targets :
        /\ startedAt[m] # NotStarted => startedAt[m] >= (Index(m) - 1) * 2000
        /\ (apc[m] = "stagger" /\ clock >= (Index(m) - 1) * 2000) => ENABLED StaggerElapsedAt(m)
        /\ apc[m] = "backoff" => ENABLED BackoffElapsed(m)
        /\ apc[m] = "fetching" => ENABLED (\E resp \in StaggerResponses : FetchResponds(m, resp))

C31_Witness ==
    /\ startedAt["B"] = 2000
    /\ apc["A"] = "backoff"
    /\ retryCount["A"] >= 1

(***************************************************************************)
(* The consumer's guarantees                                               *)
(***************************************************************************)
\* C1: a connectWithMessages call that its owner does not cancel passes to
\* onEvent at most one terminal event (end or error, from the server or made
\* up by the manager) for each expected model, and once the call has resolved
\* it has passed exactly one for each of them: whatever the server sends,
\* whenever the response ends, whenever the timeout and heartbeat timers fire
\* and however often the connect is retried.
C1_ExactlyOneTerminalEvent ==
    \A g \in Managers :
        ~obs[g].cancelled =>
            \A m \in SeqToSet(mgr[g].expected) :
                /\ obs[g].terminals[m] <= 1
                /\ mgr[g].pc = "resolved" => obs[g].terminals[m] = 1

\* C8: when the response ends after 2 of the 4 expected models have reached
\* a terminal event, and the owner does not cancel, the manager passes no
\* further event to onEvent for those 2, and once its call has resolved each
\* of the other 2 has one terminal event: the server's, or a made-up error
\* with retryable = true.
C8_ReconnectSparesTerminalTargets ==
    \A g \in Managers :
        (/\ mgr[g].ended
         /\ Len(mgr[g].expected) = 4
         /\ Cardinality(mgr[g].endedWith) = 2
         /\ ~obs[g].cancelled) =>
            /\ \A m \in mgr[g].endedWith :
                   /\ ~obs[g].late[m]
                   /\ obs[g].terminals[m] = 1
                   /\ obs[g].synthesized[m] = 0
            /\ mgr[g].pc = "resolved" =>
                   \A m \in SeqToSet(mgr[g].expected) \ mgr[g].endedWith :
                       obs[g].terminals[m] = 1
\* C15: the status notifications of a manager come in the order idle,
\* connecting, connected, then disconnected or error: no status but the
\* connecting of a new attempt follows disconnected or error (so disconnected
\* is not reported twice), and a manager whose response ended or failed
\* before every model was terminal does not finish its call still reported
\* as connected.
C15_StatusOrder ==
    \A g \in Managers :
        /\ ~obs[g].badStatus
        /\ (mgr[g].ended /\ mgr[g].pc \in {"resolved", "rejected"}) =>
               obs[g].status # "connected"

\* C18: once its owner has called disconnect() on a started call, a manager issues no
\* further request and passes no further terminal event, made-up event or
\* event for an already terminal model to onEvent, wherever the call stood
\* when it was disconnected.
C18_SilentAfterDisconnect ==
    [][\A g \in Managers :
          (obs[g].cancelled /\ mgr[g].pc # "new") =>
              /\ mgr'[g].connects = mgr[g].connects
              /\ obs'[g].terminals = obs[g].terminals
              /\ obs'[g].synthesized = obs[g].synthesized
              /\ obs'[g].late = obs[g].late]_vars

\* C19: a manager whose response stream is open and that has received no
\* byte for more than twice heartbeatInterval does not stay so: bytes arrive
\* after all, the stream ends, or the manager is disconnected (isConnected
\* false, the read aborted, status disconnected reported); and the heartbeat
\* timer disconnects only a manager that has been without bytes for that
\* long, leaving it disconnected in that way.
C19_StaleConnectionDisconnected ==
    /\ \A g \in {1} :
           (StreamOpen(mgr[g]) /\ mgr[g].quiet) ~>
               \/ ~mgr[g].quiet
               \/ mgr[g].pc # "reading"
               \/ (~mgr[g].isConnected /\ ~mgr[g].controller /\ obs[g].status = "disconnected")
    /\ [][\A g \in Managers :
             (mgr'[g].staleClosed /\ ~mgr[g].staleClosed) =>
                 /\ mgr[g].quiet
                 /\ ~mgr'[g].isConnected
                 /\ ~mgr'[g].controller
                 /\ obs'[g].status = "disconnected"]_vars

\* the heartbeat timer has disconnected a manager that was streaming
C19_Witness ==
    /\ mgr[1].staleClosed
    /\ mgr[1].pc = "reading"
    /\ ~mgr[1].isConnected
    /\ obs[1].status = "disconnected"

\* C20: once the whole response stream has been delivered, however it was
\* cut into chunks, processChunk has dispatched the events it dispatches
\* when each record arrives in a chunk of its own, in the same order.
C20_ChunkingDoesNotMatter ==
    (records > 0 /\ wire = <<>>) => dispatched = PerRecord(records).dispatched

(***************************************************************************)
(* The pool's guarantees                                                   *)
(***************************************************************************)
\* C7: once closeAllConnections() has completed, no manager it closed is
\* held by the pool, and no callback of such a manager reaches the pool's
\* global event handler or global status handler any more.
C7_ClosedConnectionsStaySilent ==
    /\ pool.lateInvoked = {}
    /\ \A g \in pool.closedByAll : \A id \in ConnIds : pool.connections[id].manager # g

\* the connections a cleanupStaleConnections(maxAge) call has to remove
StaleTerminal(maxAge) ==
    {id \in ConnIds : /\ pool.connections[id] # NoConn
                      /\ pool.connections[id].status \in {"disconnected", "error"}
                      /\ now - pool.connections[id].createdAt > maxAge}

\* C9: a cleanupStaleConnections(maxAge) call removes the connections whose
\* status is disconnected or error and whose age is above maxAge, leaves
\* every other connection (each connecting or connected one, whatever its
\* age) as it was, and returns the number of connections it removed.
C9_CleanupRemovesExactlyStaleTerminal ==
    [][pool'.cleanupResult # NoResult =>
          /\ \A id \in ConnIds :
                 pool'.connections[id] =
                     IF id \in StaleTerminal(pool'.cleanupResult.maxAge)
                     THEN NoConn ELSE pool.connections[id]
          /\ pool'.cleanupResult.count = Cardinality(StaleTerminal(pool'.cleanupResult.maxAge))]_vars

\* a call has just removed a connection and kept a connecting or connected
\* one that was older than maxAge as well
C9_Witness ==
    /\ pool.cleanupResult # NoResult
    /\ pool.cleanupResult.maxAge >= 0
    /\ pool.cleanupResult.count >= 1
    /\ \E id \in ConnIds :
           /\ pool.connections[id].status \in {"connecting", "connected"}
           /\ now - pool.connections[id].createdAt > pool.cleanupResult.maxAge

\* C10: no step leaves the pool with more than maxConcurrentConnections
\* connections, and a step that registers a connection starts from fewer
\* than maxConcurrentConnections.
C10_PoolNeverExceedsLimit ==
    [][/\ PoolSize(pool') <= maxConcurrentConnections
       /\ PoolSize(pool') > PoolSize(pool) => PoolSize(pool) < maxConcurrentConnections]_vars

\* C11: under one connection id the pool replaces a connection only after
\* its manager has been disconnected, and it keeps the connection registered
\* last under the id for as long as that connection's own transport is open
\* (it has not been closed and has not become terminal), whatever calls for
\* the same id overlap and whatever the replaced manager still does.
C11_ReplacementKeepsNewConnection ==
    [][\A id \in ConnIds :
          LET old == pool.connections[id]
              new == pool'.connections[id]
          IN  (old # NoConn /\ new.manager # old.manager) =>
                  ~TransportOpen(mgr'[old.manager])]_vars

\* C12: a closeConnection(id) call that finds a connection under id
\* disconnects its manager and removes the connection; a call that finds none
\* (the id was closed before, or never created) leaves the connections map,
\* activeConnections and the pending timers as they were, touches no manager
\* and so invokes no status or event callback.
C12_CloseConnectionIdempotent ==
    [][pool'.closeResult # NoClose =>
          LET id == pool'.closeResult.id
              g == pool.connections[id].manager
          IN  IF pool.connections[id] # NoConn
              THEN /\ pool'.connections[id] = NoConn
                   /\ ~mgr'[g].isConnected
                   /\ ~mgr'[g].controller
              ELSE /\ pool'.connections = pool.connections
                   /\ pool'.activeConnections = pool.activeConnections
                   /\ pool'.graceTimers = pool.graceTimers
                   /\ mgr' = mgr
                   /\ obs' = obs
                   /\ micro'.q = micro.q]_vars

\* closeConnection has just been called a second time for an id some
\* createConnection call has used, and found nothing under it
C12_Witness ==
    /\ pool.closeResult # NoClose
    /\ ~pool.closeResult.found
    /\ \E c \in Calls : call[c].id = pool.closeResult.id /\ call[c].pc # "idle"

\* C13: in every state, a connection of the pool has status connected if
\* and only if the response stream of its manager is open and the manager
\* has not been disconnected.
C13_ConnectedIffStreamOpen ==
    \A id \in ConnIds :
        pool.connections[id] # NoConn =>
            (pool.connections[id].status = "connected"
                <=> StreamOpen(mgr[pool.connections[id].manager]))

(***************************************************************************)
(* ChatApp's guarantees                                                    *)
(***************************************************************************)
\* the run state ChatApp shows for a model
RunState(st) ==
    IF st.isLoading THEN "loading"
    ELSE IF st.error THEN "errored"
    ELSE "completed"

\* C14: once a submission has been made, a model whose run state has become
\* completed or errored keeps that run state whatever events follow: it does
\* not load again and does not change between completed and errored.
C14_TerminalRunStateIsFinal ==
    [][\A m \in SeqToSet(selectedModels) :
          (/\ call[1].submit
           /\ RunState(pool.modelsState[m]) \in {"completed", "errored"}) =>
              RunState(pool'.modelsState[m]) = RunState(pool.modelsState[m])]_vars

\* C21: a record whose event name cannot be split into target and kind is
\* dropped: onEvent is not invoked, completedModels, the connection status and
\* the stream are as they were, so the records after it are dispatched as if
\* it had not been there
C21_MalformedRecordDropped ==
    [][\A g \in {1} :
          (mgr[g].pc = "reading" /\ ~mgr[g].dropped /\ mgr'[g].dropped)
              => /\ obs'[g] = obs[g]
                 /\ mgr'[g] = [mgr[g] EXCEPT !.dropped = TRUE, !.quiet = FALSE]]_vars

C21_Witness ==
    /\ mgr[1].dropped
    /\ mgr[1].pc = "resolved"
    /\ ~mgr[1].ended
    /\ \A m \in ModelIds : obs[1].terminals[m] = 1

\* the place in the response stream of the record the i-th dispatched event
\* was written as
WrittenAt(i) == dispatched[i].event[1].k

\* the ways the records of the stream can belong to targets and heartbeats
Interleavings == [1..MaxRecords -> {"A", "B", "heartbeat"}]

\* C22: whichever records belong to which target, and wherever heartbeats
\* and other targets' records stand between them, the events of one target
\* are handed to handleSSEEvent (and so to onEvent) in the order in which the
\* server wrote them, each with the data of its own record
C22_PerTargetOrderKept ==
    /\ \A i \in 1..Len(dispatched) :
          /\ dispatched[i].event = <<Sym("name", WrittenAt(i))>>
          /\ dispatched[i].data = <<Sym("payload", WrittenAt(i))>>
    /\ \A t \in Interleavings : \A i, j \in 1..Len(dispatched) :
          (i < j /\ t[WrittenAt(i)] = t[WrittenAt(j)]) => WrittenAt(i) < WrittenAt(j)

C22_Witness ==
    /\ records >= 3
    /\ wire = <<>>
    /\ Len(dispatched) = records

\* C24: every request a manager issues after its first one, be it a connect
\* retry or a reconnection, names only models that have had no terminal
\* event yet.
C24_LaterRequestsOnlyForOpenTargets ==
    [][\A g \in {1} :
          (mgr[g].connects >= 1 /\ mgr'[g].connects > mgr[g].connects)
              => \A m \in SeqToSet(mgr'[g].requested) : obs[g].terminals[m] = 0]_vars

\* C25: once the transport has ended before every expected model was
\* terminal, with reconnection disabled or its attempts used up, every model
\* that was not terminal has received exactly one synthesized error, which is
\* retryable, and the models that were terminal have received nothing more.
C25_TransportEndSynthesizesErrors ==
    \A g \in {1} :
        (mgr[g].ended /\ (~reconnectOnDrop \/ mgr[g].reconnectAttempts >= maxReconnectAttempts))
            => \A m \in SeqToSet(mgr[g].expected) :
                   /\ obs[g].terminals[m] = 1
                   /\ obs[g].synthesized[m] = (IF m \in mgr[g].endedWith THEN 0 ELSE 1)

\* C26: a manager whose connect attempts keep failing with a retryable error
\* issues at most 1 + maxRetries requests, and while it waits to issue the
\* next one its retry counter is the number of requests that have failed, so
\* that the n-th retry waits retryDelay * 2^(n-1).
C26_ConnectRetriesBounded ==
    /\ mgr[1].connects <= 1 + optionsMaxRetries
    /\ (mgr[1].pc = "retryDelay" /\ ~obs[1].cancelled) => mgr[1].retryCount = mgr[1].connects

(***************************************************************************)
(* The selection's guarantees                                              *)
(***************************************************************************)
\* C23: after any sequence of toggles, Select All, Clear All and Focus the
\* selection holds at most 4 models and none twice; a toggle of an
\* unselected model while 4 are selected leaves the selection as it was, and
\* a toggle of a selected model always removes it.
C23_SelectionBounded ==
    /\ [](/\ Len(selected) <= 4
          /\ \A i, j \in 1..Len(selected) : selected[i] = selected[j] => i = j)
    /\ [][\A m \in SeqToSet(openRouterModels) :
            (lastOp' = [op |-> "toggle", m |-> m] /\ rendered' = rendered) =>
                /\ (m \notin SeqToSet(selected) /\ Len(selected) = 4) => selected' = selected
                /\ m \in SeqToSet(selected) =>
                       SeqToSet(selected') = SeqToSet(selected) \ {m}]_selectionVars

C23_Witness ==
    /\ Len(selected) = 4
    /\ lastOp.op = "toggle"
    /\ lastOp.m \notin SeqToSet(selected)

\* the whole lines of a text
WholeLines(text) == SubSeq(Split(text), 1, Len(Split(text)) - 1)

\* C33: whatever a read delivers, every event line with its data line that
\* is complete in the buffer after the read is dispatched by that read: the
\* truncation of the buffer discards no complete record that has not been
\* dispatched.
C33_TruncationLosesNoRecord ==
    [][LET chunk == SubSeq(wire, 1, Len(wire) - Len(wire'))
       IN  dispatched' = ScanLines(WholeLines(buffer \o chunk), 1, dispatched)]_parserVars

(***************************************************************************)
(* The event names' guarantees                                             *)
(***************************************************************************)
\* C32: the event name the server writes for a model id and a kind is
\* decoded by handleSSEEvent to that model id and that kind, whatever
\* characters ('_', '/', ':', '-') the id holds, and the name of a heartbeat
\* is decoded as a heartbeat with no model.
C32_TaggingRoundTrip ==
    decoded # NoEvent =>
        /\ decoded.modelId = tagId
        /\ decoded.type = <<tagKind>>

C32_Witness ==
    /\ decoded # NoEvent
    /\ Len(tagId) = 3
    /\ tagId[2] = "_"
    /\ tagKind = "end"

(***************************************************************************)
(* The pool's bookkeeping                                                  *)
(***************************************************************************)
\* C34: the 5 s timer handleStatusChange starts for a connection that has
\* reported disconnected or error removes a connection only if that
\* connection is in status disconnected or error when the timer fires: a
\* connection that is connecting or connected again, or a newer connection
\* registered under the same id, is not removed by it.
C34_GraceTimerRemovesOnlyTerminal ==
    [][\A id \in ConnIds :
          (/\ pool'.graceTimers[id] < pool.graceTimers[id]
           /\ pool.connections[id] # NoConn
           /\ pool'.connections[id] = NoConn)
              => pool.connections[id].status \in {"disconnected", "error"}]_vars

\* C35: in every state activeConnections is the number of entries of the
\* connections map, whatever createConnection, closeConnection,
\* closeAllConnections, cleanupStaleConnections calls and timer removals
\* have been interleaved.
C35_ActiveCountMatchesMap ==
    pool.activeConnections = PoolSize(pool)

\* C36: when the connect of the manager of a createConnection call rejects,
\* the call rejects, no connection is left under its id, and every connection
\* registered by another call is still in the pool.
C36_FailedConnectRemovesOnlyItsOwn ==
    [][\A g \in Calls :
          (call[g].pc = "connecting" /\ call'[g].pc = "thrown") =>
              /\ pool'.connections[call[g].id] = NoConn
              /\ \A id \in ConnIds :
                     (pool.connections[id] # NoConn /\ pool.connections[id].manager # g)
                         => pool'.connections[id] = pool.connections[id]]_vars

(***************************************************************************)
(* ChatApp's submissions                                                   *)
(***************************************************************************)
\* submission s has been reset, its response has carried the terminal record
\* of every selected model, each of them has finished with a response and no
\* error, and the createConnection call of every earlier submission has settled
FinishedWithResponses(s) ==
    /\ chat.sub = s
    /\ chat.latest = s
    /\ SeqToSet(selectedModels) \subseteq mgr[s].served
    /\ \A g \in Calls : g < s => call[g].pc \in {"returned", "thrown"}
    /\ \A m \in SeqToSet(selectedModels) :
           /\ ~pool.modelsState[m].isLoading
           /\ ~pool.modelsState[m].error
           /\ pool.modelsState[m].response

\* triggerEvaluation has been called for submission s
Evaluated(s) ==
    \E i \in 1..Len(chat.evaluations) : chat.evaluations[i].sub = s

\* C37: triggerEvaluation is called only while no selected model is loading
\* and at most once for a submission; and a submission whose selected models
\* have all finished with a response is evaluated, unless the user submits
\* again or starts a new chat first.
C37_EvaluationOncePerFinishedSubmission ==
    /\ [][Len(chat'.evaluations) > Len(chat.evaluations) =>
             LET e == chat'.evaluations[Len(chat'.evaluations)]
             IN  /\ e.loading = {}
                 /\ \A i \in 1..Len(chat.evaluations) : chat.evaluations[i].sub # e.sub]_vars
    /\ \A s \in 1..MaxSubmits :
           FinishedWithResponses(s) ~> (Evaluated(s) \/ chat.sub # s \/ chat.latest # s)

\* C38: once handleNewChat or the state reset of a new submission has run,
\* no event of a manager of an earlier submission changes modelsState.
C38_NoStaleEventAfterReset ==
    [][\A g \in Calls :
          (/\ mgr'[g] # mgr[g]
           /\ call'[g] = call[g]
           /\ chat'.latest = chat.latest
           /\ chat'.newChats = chat.newChats
           /\ g # chat.latest)
              => pool'.modelsState = pool.modelsState]_vars
====
